---------------------------- MODULE Spec2Model ----------------------------
(***************************************************************************)
(* Model of the prediction-and-enrichment engine of the Medicine           *)
(* Recommendation System: backend/models/ml_model.py (MedicinePredictor)   *)
(* and the calls the service layer makes on it.                            *)
(*                                                                         *)
(* Python values are represented as follows.                               *)
(*   str        a sequence of one-character strings, <<"c","o","u">>       *)
(*   JSON value [type |-> "str", val |-> <<chars>>] for a string, and      *)
(*              [type |-> "int", val |-> <<digits>>] for a number          *)
(*   list       a sequence                                                 *)
(*   dict       a sequence of <<key, value>> pairs in insertion order      *)
(*   ndarray    a function on 0..N-1                                       *)
(*   a call that may raise returns [raised |-> TRUE, exc |-> name] or      *)
(*   [raised |-> FALSE, val |-> value]                                     *)
(***************************************************************************)
EXTENDS Integers, Sequences, FiniteSets, TLC

VARIABLES
  symptoms_dict,    \* self.symptoms_dict   (dict: symptom name -> index)
  diseases_list,    \* self.diseases_list   (dict: classifier label -> name)
  supporting_data,  \* self.supporting_data (the reference tables)
  model,            \* self.model           (the unpickled classifier)
  call,             \* the call on the predictor that is being served: its
                    \* arguments, what it handed to the classifier and what it returns
  earlier,          \* a prediction call and its answer, kept by the caller
  predictor,        \* routes/ml.py: the module's predictor, or None
  serving,          \* the process has started the server (app.run)
  exchange,         \* the HTTP request that is being answered: the request,
                    \* the documents handed to db.prediction_logs.insert_one,
                    \* and the response
  frames,           \* the calls on the predictor that concurrent workers are
                    \* executing: for each worker its position and locals
  users,            \* db.users: the documents of the collection
  clock,            \* datetime.utcnow(), in hours
  issued            \* the number of reset tokens secrets.token_urlsafe has made

vars == <<symptoms_dict, diseases_list, supporting_data, model, call, earlier,
          predictor, serving, exchange, frames, users, clock, issued>>

\* the accounts and what the password routes need
accounts == <<users, clock, issued>>

\* what the calls on the predictor leave alone
service == <<predictor, serving, exchange, frames, accounts>>

\* the predictor and its data
engine == <<symptoms_dict, diseases_list, supporting_data, model>>

-----------------------------------------------------------------------------
(* Bounds of the model.                                                    *)

\* longest list of symptom tokens a caller sends
MaxLen == 2

-----------------------------------------------------------------------------
(* Python built-ins used by the predictor.                                 *)

Raise(e) == [raised |-> TRUE, exc |-> e]
Ret(v) == [raised |-> FALSE, val |-> v]

\* the characters str.strip() removes when called without an argument
Whitespace == {" ", "\t", "\n", "\r"}

\* the characters of the argument of sym.strip("[]' '")
ListArtifacts == {"[", "]", "'", " "}

RECURSIVE lstrip(_, _)
lstrip(s, chars) ==
  IF s # <<>> /\ Head(s) \in chars THEN lstrip(Tail(s), chars) ELSE s

RECURSIVE rstrip(_, _)
rstrip(s, chars) ==
  IF s # <<>> /\ s[Len(s)] \in chars
    THEN rstrip(SubSeq(s, 1, Len(s) - 1), chars)
    ELSE s

\* str.strip(chars): leading and trailing characters of the set are removed
strip(s, chars) == rstrip(lstrip(s, chars), chars)

UpperCase ==
  <<"A","B","C","D","E","F","G","H","I","J","K","L","M",
    "N","O","P","Q","R","S","T","U","V","W","X","Y","Z">>
LowerCase ==
  <<"a","b","c","d","e","f","g","h","i","j","k","l","m",
    "n","o","p","q","r","s","t","u","v","w","x","y","z">>

\* the lower-case form of every upper-case letter
ToLower ==
  [c \in {UpperCase[k] : k \in 1..Len(UpperCase)} |->
     LowerCase[CHOOSE k \in 1..Len(UpperCase) : UpperCase[k] = c]]

\* str.lower()
lower(s) ==
  [i \in 1..Len(s) |-> IF s[i] \in DOMAIN ToLower THEN ToLower[s[i]] ELSE s[i]]

\* a in b, for two strings
IsSubstring(a, b) ==
  \E i \in 0..(Len(b) - Len(a)) : SubSeq(b, i + 1, i + Len(a)) = a

\* seq[:limit]
SliceTo(seq, limit) ==
  IF limit >= 0
    THEN SubSeq(seq, 1, IF limit < Len(seq) THEN limit ELSE Len(seq))
    ELSE SubSeq(seq, 1, IF Len(seq) + limit > 0 THEN Len(seq) + limit ELSE 0)

\* key in d
HasKey(d, key) == \E i \in 1..Len(d) : d[i][1] = key

\* d[key], for a key of d
Get(d, key) == d[CHOOSE i \in 1..Len(d) : d[i][1] = key][2]

\* list(d.keys()) and list(d.values())
Keys(d) == [i \in 1..Len(d) |-> d[i][1]]
Values(d) == [i \in 1..Len(d) |-> d[i][2]]

-----------------------------------------------------------------------------
(* The dict literals of load_model_and_data.                               *)

SymptomItems ==
  << <<<<"i","t","c","h","i","n","g">>, 0>>,
     <<<<"s","k","i","n","_","r","a","s","h">>, 1>>,
     <<<<"n","o","d","a","l","_","s","k","i","n","_","e","r","u","p","t","i","o","n","s">>, 2>>,
     <<<<"c","o","n","t","i","n","u","o","u","s","_","s","n","e","e","z","i","n","g">>, 3>>,
     <<<<"s","h","i","v","e","r","i","n","g">>, 4>>,
     <<<<"c","h","i","l","l","s">>, 5>>,
     <<<<"j","o","i","n","t","_","p","a","i","n">>, 6>>,
     <<<<"s","t","o","m","a","c","h","_","p","a","i","n">>, 7>>,
     <<<<"a","c","i","d","i","t","y">>, 8>>,
     <<<<"u","l","c","e","r","s","_","o","n","_","t","o","n","g","u","e">>, 9>>,
     <<<<"m","u","s","c","l","e","_","w","a","s","t","i","n","g">>, 10>>,
     <<<<"v","o","m","i","t","i","n","g">>, 11>>,
     <<<<"b","u","r","n","i","n","g","_","m","i","c","t","u","r","i","t","i","o","n">>, 12>>,
     <<<<"s","p","o","t","t","i","n","g","_"," ","u","r","i","n","a","t","i","o","n">>, 13>>,
     <<<<"f","a","t","i","g","u","e">>, 14>>,
     <<<<"w","e","i","g","h","t","_","g","a","i","n">>, 15>>,
     <<<<"a","n","x","i","e","t","y">>, 16>>,
     <<<<"c","o","l","d","_","h","a","n","d","s","_","a","n","d","_","f","e","e","t","s">>, 17>>,
     <<<<"m","o","o","d","_","s","w","i","n","g","s">>, 18>>,
     <<<<"w","e","i","g","h","t","_","l","o","s","s">>, 19>>,
     <<<<"r","e","s","t","l","e","s","s","n","e","s","s">>, 20>>,
     <<<<"l","e","t","h","a","r","g","y">>, 21>>,
     <<<<"p","a","t","c","h","e","s","_","i","n","_","t","h","r","o","a","t">>, 22>>,
     <<<<"i","r","r","e","g","u","l","a","r","_","s","u","g","a","r","_","l","e","v","e","l">>, 23>>,
     <<<<"c","o","u","g","h">>, 24>>,
     <<<<"h","i","g","h","_","f","e","v","e","r">>, 25>>,
     <<<<"s","u","n","k","e","n","_","e","y","e","s">>, 26>>,
     <<<<"b","r","e","a","t","h","l","e","s","s","n","e","s","s">>, 27>>,
     <<<<"s","w","e","a","t","i","n","g">>, 28>>,
     <<<<"d","e","h","y","d","r","a","t","i","o","n">>, 29>>,
     <<<<"i","n","d","i","g","e","s","t","i","o","n">>, 30>>,
     <<<<"h","e","a","d","a","c","h","e">>, 31>>,
     <<<<"y","e","l","l","o","w","i","s","h","_","s","k","i","n">>, 32>>,
     <<<<"d","a","r","k","_","u","r","i","n","e">>, 33>>,
     <<<<"n","a","u","s","e","a">>, 34>>,
     <<<<"l","o","s","s","_","o","f","_","a","p","p","e","t","i","t","e">>, 35>>,
     <<<<"p","a","i","n","_","b","e","h","i","n","d","_","t","h","e","_","e","y","e","s">>, 36>>,
     <<<<"b","a","c","k","_","p","a","i","n">>, 37>>,
     <<<<"c","o","n","s","t","i","p","a","t","i","o","n">>, 38>>,
     <<<<"a","b","d","o","m","i","n","a","l","_","p","a","i","n">>, 39>>,
     <<<<"d","i","a","r","r","h","o","e","a">>, 40>>,
     <<<<"m","i","l","d","_","f","e","v","e","r">>, 41>>,
     <<<<"y","e","l","l","o","w","_","u","r","i","n","e">>, 42>>,
     <<<<"y","e","l","l","o","w","i","n","g","_","o","f","_","e","y","e","s">>, 43>>,
     <<<<"a","c","u","t","e","_","l","i","v","e","r","_","f","a","i","l","u","r","e">>, 44>>,
     <<<<"f","l","u","i","d","_","o","v","e","r","l","o","a","d">>, 45>>,
     <<<<"s","w","e","l","l","i","n","g","_","o","f","_","s","t","o","m","a","c","h">>, 46>>,
     <<<<"s","w","e","l","l","e","d","_","l","y","m","p","h","_","n","o","d","e","s">>, 47>>,
     <<<<"m","a","l","a","i","s","e">>, 48>>,
     <<<<"b","l","u","r","r","e","d","_","a","n","d","_","d","i","s","t","o","r","t","e","d","_","v","i","s","i","o","n">>, 49>>,
     <<<<"p","h","l","e","g","m">>, 50>>,
     <<<<"t","h","r","o","a","t","_","i","r","r","i","t","a","t","i","o","n">>, 51>>,
     <<<<"r","e","d","n","e","s","s","_","o","f","_","e","y","e","s">>, 52>>,
     <<<<"s","i","n","u","s","_","p","r","e","s","s","u","r","e">>, 53>>,
     <<<<"r","u","n","n","y","_","n","o","s","e">>, 54>>,
     <<<<"c","o","n","g","e","s","t","i","o","n">>, 55>>,
     <<<<"c","h","e","s","t","_","p","a","i","n">>, 56>>,
     <<<<"w","e","a","k","n","e","s","s","_","i","n","_","l","i","m","b","s">>, 57>>,
     <<<<"f","a","s","t","_","h","e","a","r","t","_","r","a","t","e">>, 58>>,
     <<<<"p","a","i","n","_","d","u","r","i","n","g","_","b","o","w","e","l","_","m","o","v","e","m","e","n","t","s">>, 59>>,
     <<<<"p","a","i","n","_","i","n","_","a","n","a","l","_","r","e","g","i","o","n">>, 60>>,
     <<<<"b","l","o","o","d","y","_","s","t","o","o","l">>, 61>>,
     <<<<"i","r","r","i","t","a","t","i","o","n","_","i","n","_","a","n","u","s">>, 62>>,
     <<<<"n","e","c","k","_","p","a","i","n">>, 63>>,
     <<<<"d","i","z","z","i","n","e","s","s">>, 64>>,
     <<<<"c","r","a","m","p","s">>, 65>>,
     <<<<"b","r","u","i","s","i","n","g">>, 66>>,
     <<<<"o","b","e","s","i","t","y">>, 67>>,
     <<<<"s","w","o","l","l","e","n","_","l","e","g","s">>, 68>>,
     <<<<"s","w","o","l","l","e","n","_","b","l","o","o","d","_","v","e","s","s","e","l","s">>, 69>>,
     <<<<"p","u","f","f","y","_","f","a","c","e","_","a","n","d","_","e","y","e","s">>, 70>>,
     <<<<"e","n","l","a","r","g","e","d","_","t","h","y","r","o","i","d">>, 71>>,
     <<<<"b","r","i","t","t","l","e","_","n","a","i","l","s">>, 72>>,
     <<<<"s","w","o","l","l","e","n","_","e","x","t","r","e","m","e","t","i","e","s">>, 73>>,
     <<<<"e","x","c","e","s","s","i","v","e","_","h","u","n","g","e","r">>, 74>>,
     <<<<"e","x","t","r","a","_","m","a","r","i","t","a","l","_","c","o","n","t","a","c","t","s">>, 75>>,
     <<<<"d","r","y","i","n","g","_","a","n","d","_","t","i","n","g","l","i","n","g","_","l","i","p","s">>, 76>>,
     <<<<"s","l","u","r","r","e","d","_","s","p","e","e","c","h">>, 77>>,
     <<<<"k","n","e","e","_","p","a","i","n">>, 78>>,
     <<<<"h","i","p","_","j","o","i","n","t","_","p","a","i","n">>, 79>>,
     <<<<"m","u","s","c","l","e","_","w","e","a","k","n","e","s","s">>, 80>>,
     <<<<"s","t","i","f","f","_","n","e","c","k">>, 81>>,
     <<<<"s","w","e","l","l","i","n","g","_","j","o","i","n","t","s">>, 82>>,
     <<<<"m","o","v","e","m","e","n","t","_","s","t","i","f","f","n","e","s","s">>, 83>>,
     <<<<"s","p","i","n","n","i","n","g","_","m","o","v","e","m","e","n","t","s">>, 84>>,
     <<<<"l","o","s","s","_","o","f","_","b","a","l","a","n","c","e">>, 85>>,
     <<<<"u","n","s","t","e","a","d","i","n","e","s","s">>, 86>>,
     <<<<"w","e","a","k","n","e","s","s","_","o","f","_","o","n","e","_","b","o","d","y","_","s","i","d","e">>, 87>>,
     <<<<"l","o","s","s","_","o","f","_","s","m","e","l","l">>, 88>>,
     <<<<"b","l","a","d","d","e","r","_","d","i","s","c","o","m","f","o","r","t">>, 89>>,
     <<<<"f","o","u","l","_","s","m","e","l","l","_","o","f"," ","u","r","i","n","e">>, 90>>,
     <<<<"c","o","n","t","i","n","u","o","u","s","_","f","e","e","l","_","o","f","_","u","r","i","n","e">>, 91>>,
     <<<<"p","a","s","s","a","g","e","_","o","f","_","g","a","s","e","s">>, 92>>,
     <<<<"i","n","t","e","r","n","a","l","_","i","t","c","h","i","n","g">>, 93>>,
     <<<<"t","o","x","i","c","_","l","o","o","k","_","(","t","y","p","h","o","s",")">>, 94>>,
     <<<<"d","e","p","r","e","s","s","i","o","n">>, 95>>,
     <<<<"i","r","r","i","t","a","b","i","l","i","t","y">>, 96>>,
     <<<<"m","u","s","c","l","e","_","p","a","i","n">>, 97>>,
     <<<<"a","l","t","e","r","e","d","_","s","e","n","s","o","r","i","u","m">>, 98>>,
     <<<<"r","e","d","_","s","p","o","t","s","_","o","v","e","r","_","b","o","d","y">>, 99>>,
     <<<<"b","e","l","l","y","_","p","a","i","n">>, 100>>,
     <<<<"a","b","n","o","r","m","a","l","_","m","e","n","s","t","r","u","a","t","i","o","n">>, 101>>,
     <<<<"d","i","s","c","h","r","o","m","i","c"," ","_","p","a","t","c","h","e","s">>, 102>>,
     <<<<"w","a","t","e","r","i","n","g","_","f","r","o","m","_","e","y","e","s">>, 103>>,
     <<<<"i","n","c","r","e","a","s","e","d","_","a","p","p","e","t","i","t","e">>, 104>>,
     <<<<"p","o","l","y","u","r","i","a">>, 105>>,
     <<<<"f","a","m","i","l","y","_","h","i","s","t","o","r","y">>, 106>>,
     <<<<"m","u","c","o","i","d","_","s","p","u","t","u","m">>, 107>>,
     <<<<"r","u","s","t","y","_","s","p","u","t","u","m">>, 108>>,
     <<<<"l","a","c","k","_","o","f","_","c","o","n","c","e","n","t","r","a","t","i","o","n">>, 109>>,
     <<<<"v","i","s","u","a","l","_","d","i","s","t","u","r","b","a","n","c","e","s">>, 110>>,
     <<<<"r","e","c","e","i","v","i","n","g","_","b","l","o","o","d","_","t","r","a","n","s","f","u","s","i","o","n">>, 111>>,
     <<<<"r","e","c","e","i","v","i","n","g","_","u","n","s","t","e","r","i","l","e","_","i","n","j","e","c","t","i","o","n","s">>, 112>>,
     <<<<"c","o","m","a">>, 113>>,
     <<<<"s","t","o","m","a","c","h","_","b","l","e","e","d","i","n","g">>, 114>>,
     <<<<"d","i","s","t","e","n","t","i","o","n","_","o","f","_","a","b","d","o","m","e","n">>, 115>>,
     <<<<"h","i","s","t","o","r","y","_","o","f","_","a","l","c","o","h","o","l","_","c","o","n","s","u","m","p","t","i","o","n">>, 116>>,
     <<<<"f","l","u","i","d","_","o","v","e","r","l","o","a","d",".","1">>, 117>>,
     <<<<"b","l","o","o","d","_","i","n","_","s","p","u","t","u","m">>, 118>>,
     <<<<"p","r","o","m","i","n","e","n","t","_","v","e","i","n","s","_","o","n","_","c","a","l","f">>, 119>>,
     <<<<"p","a","l","p","i","t","a","t","i","o","n","s">>, 120>>,
     <<<<"p","a","i","n","f","u","l","_","w","a","l","k","i","n","g">>, 121>>,
     <<<<"p","u","s","_","f","i","l","l","e","d","_","p","i","m","p","l","e","s">>, 122>>,
     <<<<"b","l","a","c","k","h","e","a","d","s">>, 123>>,
     <<<<"s","c","u","r","r","i","n","g">>, 124>>,
     <<<<"s","k","i","n","_","p","e","e","l","i","n","g">>, 125>>,
     <<<<"s","i","l","v","e","r","_","l","i","k","e","_","d","u","s","t","i","n","g">>, 126>>,
     <<<<"s","m","a","l","l","_","d","e","n","t","s","_","i","n","_","n","a","i","l","s">>, 127>>,
     <<<<"i","n","f","l","a","m","m","a","t","o","r","y","_","n","a","i","l","s">>, 128>>,
     <<<<"b","l","i","s","t","e","r">>, 129>>,
     <<<<"r","e","d","_","s","o","r","e","_","a","r","o","u","n","d","_","n","o","s","e">>, 130>>,
     <<<<"y","e","l","l","o","w","_","c","r","u","s","t","_","o","o","z","e">>, 131>> >>

DiseaseItems ==
  << <<15, "Fungal infection">>,
     <<4, "Allergy">>,
     <<16, "GERD">>,
     <<9, "Chronic cholestasis">>,
     <<14, "Drug Reaction">>,
     <<33, "Peptic ulcer diseae">>,
     <<1, "AIDS">>,
     <<12, "Diabetes ">>,
     <<17, "Gastroenteritis">>,
     <<6, "Bronchial Asthma">>,
     <<23, "Hypertension ">>,
     <<30, "Migraine">>,
     <<7, "Cervical spondylosis">>,
     <<32, "Paralysis (brain hemorrhage)">>,
     <<28, "Jaundice">>,
     <<29, "Malaria">>,
     <<8, "Chicken pox">>,
     <<11, "Dengue">>,
     <<37, "Typhoid">>,
     <<40, "hepatitis A">>,
     <<19, "Hepatitis B">>,
     <<20, "Hepatitis C">>,
     <<21, "Hepatitis D">>,
     <<22, "Hepatitis E">>,
     <<3, "Alcoholic hepatitis">>,
     <<36, "Tuberculosis">>,
     <<10, "Common Cold">>,
     <<34, "Pneumonia">>,
     <<13, "Dimorphic hemmorhoids(piles)">>,
     <<18, "Heart attack">>,
     <<39, "Varicose veins">>,
     <<26, "Hypothyroidism">>,
     <<24, "Hyperthyroidism">>,
     <<25, "Hypoglycemia">>,
     <<31, "Osteoarthristis">>,
     <<5, "Arthritis">>,
     <<0, "(vertigo) Paroymsal  Positional Vertigo">>,
     <<2, "Acne">>,
     <<38, "Urinary tract infection">>,
     <<35, "Psoriasis">>,
     <<27, "Impetigo">> >>

-----------------------------------------------------------------------------
(* The files load_model_and_data reads: the pickled classifier and the     *)
(* reference tables.  They are not part of the sources; the process may    *)
(* have been started on any of the artifacts and table sets below.         *)

\* a cell of a DataFrame: a text, or NaN (what read_csv makes of an empty cell)
Cell(text) == [nan |-> FALSE, s |-> text]
NaN == [nan |-> TRUE, s |-> "nan"]

\* str(cell)
StrOf(cell) == cell.s

\* a DataFrame: its column names and its rows
Table(columns, rows) == [columns |-> columns, rows |-> rows]

DescriptionColumns == {"Disease", "Description"}
PrecautionColumns ==
  {"Disease", "Precaution_1", "Precaution_2", "Precaution_3", "Precaution_4"}
MedicationColumns == {"Disease", "Medication"}
DietColumns == {"Disease", "Diet"}
WorkoutColumns == {"disease", "workout"}

PrecautionRow(d, p1, p2, p3, p4) ==
  [Disease |-> Cell(d), Precaution_1 |-> p1, Precaution_2 |-> p2,
   Precaution_3 |-> p3, Precaution_4 |-> p4]

\* every table has a row for every disease the classifier can name
CompleteTables ==
  [description |-> Table(DescriptionColumns,
     << [Disease |-> Cell("Hypoglycemia"), Description |-> Cell("low blood sugar")],
        [Disease |-> Cell("GERD"), Description |-> Cell("acid reflux")],
        [Disease |-> Cell("Paralysis (brain hemorrhage)"),
         Description |-> Cell("loss of muscle function")] >>),
   precautions |-> Table(PrecautionColumns,
     << PrecautionRow("Hypoglycemia", Cell("lie down on side"),
                      Cell("check pulse"), Cell("drink sugary drinks"),
                      Cell("consult doctor")),
        PrecautionRow("GERD", Cell("avoid fatty spicy food"),
                      Cell("avoid lying down after eating"),
                      Cell("maintain healthy weight"), Cell("exercise")),
        PrecautionRow("Paralysis (brain hemorrhage)", Cell("massage"),
                      Cell("eat healthy"), Cell("exercise"),
                      Cell("consult doctor")) >>),
   medications |-> Table(MedicationColumns,
     << [Disease |-> Cell("Hypoglycemia"), Medication |-> Cell("['Glucose tablets']")],
        [Disease |-> Cell("GERD"), Medication |-> Cell("['Antacids']")],
        [Disease |-> Cell("Paralysis (brain hemorrhage)"),
         Medication |-> Cell("['Blood thinners']")] >>),
   diets |-> Table(DietColumns,
     << [Disease |-> Cell("Hypoglycemia"), Diet |-> Cell("['Complex carbohydrates']")],
        [Disease |-> Cell("GERD"), Diet |-> Cell("['Low-Acid Diet']")],
        [Disease |-> Cell("Paralysis (brain hemorrhage)"),
         Diet |-> Cell("['Heart-Healthy Diet']")] >>),
   workout |-> Table(WorkoutColumns,
     << [disease |-> Cell("Hypoglycemia"), workout |-> Cell("Eat regular meals")],
        [disease |-> Cell("Hypoglycemia"), workout |-> Cell("Limit alcohol")],
        [disease |-> Cell("GERD"), workout |-> Cell("Eat smaller meals")],
        [disease |-> Cell("Paralysis (brain hemorrhage)"),
         workout |-> Cell("Stay hydrated")] >>)]

\* tables with missing rows, empty cells, blank cells and, in the precautions
\* file, two rows for one disease
SparseTables ==
  [description |-> Table(DescriptionColumns,
     << [Disease |-> Cell("GERD"), Description |-> Cell("acid reflux")] >>),
   precautions |-> Table(PrecautionColumns,
     << PrecautionRow("Hypoglycemia", Cell("lie down on side"), NaN,
                      Cell(" "), Cell("consult doctor")),
        PrecautionRow("Paralysis (brain hemorrhage)", Cell("massage"),
                      Cell("eat healthy"), Cell("exercise"), NaN),
        PrecautionRow("Paralysis (brain hemorrhage)", Cell("consult doctor"),
                      Cell("physiotherapy"), NaN, NaN) >>),
   medications |-> Table(MedicationColumns, << >>),
   diets |-> Table(DietColumns,
     << [Disease |-> Cell("GERD"), Diet |-> NaN] >>),
   workout |-> Table(WorkoutColumns,
     << [disease |-> Cell("Paralysis (brain hemorrhage)"),
         workout |-> Cell("Stay hydrated")] >>)]

\* a workout file whose header names the column 'Disease', as the other files do
MisheadedTables ==
  [CompleteTables EXCEPT
     !.workout = Table({"Disease", "workout"},
       << [Disease |-> Cell("GERD"), workout |-> Cell("Eat smaller meals")] >>)]

ReferenceTableSets == {CompleteTables, SparseTables, MisheadedTables}

\* The classifier artifact svc.pkl.  Its predict is a deterministic function of
\* the feature vector that either returns a label or raises.  An artifact is
\* described by the number of classes it was trained with (the labels are
\* 0..classes-1) and by whether its predict raises (an artifact pickled by an
\* incompatible library version); it accepts vectors of `features` entries.
Artifacts ==
  { [features |-> 132, classes |-> 41, broken |-> FALSE],   \* the catalog's labels
    [features |-> 132, classes |-> 64, broken |-> FALSE],   \* more labels than the catalog
    [features |-> 132, classes |-> 41, broken |-> TRUE] }

\* the sum of (i + 1) * vector[i] over the positions in S
RECURSIVE WeightedSum(_, _)
WeightedSum(vector, S) ==
  IF S = {} THEN 0
  ELSE LET i == CHOOSE j \in S : TRUE
       IN  ((i + 1) * vector[i]) + WeightedSum(vector, S \ {i})

\* self.model.predict([input_vector])[0]
Classify(artifact, input_vector) ==
  LET n == Cardinality(DOMAIN input_vector)
  IN  IF artifact.broken THEN Raise("AttributeError")
      ELSE IF n # artifact.features THEN Raise("ValueError")
      ELSE Ret(WeightedSum(input_vector, {i \in DOMAIN input_vector : input_vector[i] # 0})
                 % artifact.classes)

-----------------------------------------------------------------------------
(* MedicinePredictor.                                                      *)

\* np.zeros(n)
zeros(n) == [i \in 0..(n - 1) |-> 0]

\* mark_symptoms with a loop that ends at the first item it recognises
RECURSIVE mark_first_symptom(_, _)
mark_first_symptom(input_vector, patient_symptoms) ==
  IF patient_symptoms = <<>> THEN input_vector
  ELSE LET item == Head(patient_symptoms)
       IN  IF HasKey(symptoms_dict, item)
             THEN [input_vector EXCEPT ![Get(symptoms_dict, item)] = 1]
             ELSE mark_first_symptom(input_vector, Tail(patient_symptoms))

\* the loop of predict_disease: every item that is a key of symptoms_dict sets
\* its position of the vector to 1
RECURSIVE mark_symptoms(_, _)
mark_symptoms(input_vector, patient_symptoms) ==
  IF patient_symptoms = <<>> THEN input_vector
  ELSE LET item == Head(patient_symptoms)
       IN  mark_symptoms(
             IF HasKey(symptoms_dict, item)
               THEN [input_vector EXCEPT ![Get(symptoms_dict, item)] = 1]
               ELSE input_vector,
             Tail(patient_symptoms))

\* feature_vector with a vector allocated for the symptoms supplied
feature_vector_sized(patient_symptoms) ==
  mark_symptoms(zeros(Len(patient_symptoms)), patient_symptoms)

\* the vector predict_disease hands to the classifier
feature_vector(patient_symptoms) ==
  mark_symptoms(zeros(Len(symptoms_dict)), patient_symptoms)

\* predict_disease with diseases_list.get(prediction, 'Unknown disease'): a label
\* without an entry is answered with a name
predict_disease_default(patient_symptoms) ==
  LET input_vector == feature_vector(patient_symptoms)
      prediction == Classify(model, input_vector)
  IN  IF prediction.raised
        THEN [raised |-> TRUE, exc |-> prediction.exc, val |-> "",
              model_inputs |-> <<input_vector>>, labels |-> <<>>]
      ELSE [raised |-> FALSE, exc |-> "",
            val |-> IF HasKey(diseases_list, prediction.val)
                      THEN Get(diseases_list, prediction.val)
                      ELSE "Unknown disease",
            model_inputs |-> <<input_vector>>, labels |-> <<prediction.val>>]

\* predict_disease(patient_symptoms).  Beside the outcome, the value records the
\* vectors handed to the classifier and the labels it returned.
predict_disease(patient_symptoms) ==
  LET input_vector == feature_vector(patient_symptoms)
      prediction == Classify(model, input_vector)
  IN  IF prediction.raised
        THEN [raised |-> TRUE, exc |-> prediction.exc, val |-> "",
              model_inputs |-> <<input_vector>>, labels |-> <<>>]
      ELSE IF ~HasKey(diseases_list, prediction.val)
        THEN [raised |-> TRUE, exc |-> "KeyError", val |-> "",
              model_inputs |-> <<input_vector>>, labels |-> <<prediction.val>>]
      ELSE [raised |-> FALSE, exc |-> "", val |-> Get(diseases_list, prediction.val),
            model_inputs |-> <<input_vector>>, labels |-> <<prediction.val>>]

\* df[df[key] == disease]: the rows whose key cell is the disease name
RowsOf(df, key, disease) ==
  SelectSeq(df.rows, LAMBDA row : ~row[key].nan /\ row[key].s = disease)

\* [str(v) for v in rows[column].values]
ColumnTexts(rows, column) == [i \in 1..Len(rows) |-> StrOf(rows[i][column])]

\* " ".join(texts)
RECURSIVE Join(_)
Join(texts) ==
  IF texts = <<>> THEN ""
  ELSE IF Len(texts) = 1 THEN texts[1]
  ELSE texts[1] \o " " \o Join(Tail(texts))

\* str(item).strip() is empty
IsBlank(text) == text \in {"", " ", "  "}

PrecautionFields == <<"Precaution_1", "Precaution_2", "Precaution_3", "Precaution_4">>

\* the nested loop over pre.values: the cells of every row, left to right, that
\* are neither NaN nor blank
RECURSIVE precautions_of(_)
precautions_of(rows) ==
  IF rows = <<>> THEN <<>>
  ELSE LET cells == [i \in 1..Len(PrecautionFields) |-> Head(rows)[PrecautionFields[i]]]
           kept == SelectSeq(cells, LAMBDA item : ~item.nan /\ ~IsBlank(StrOf(item)))
       IN  [i \in 1..Len(kept) |-> StrOf(kept[i])] \o precautions_of(Tail(rows))

\* pandas raises KeyError when a column that is selected does not exist
MissingColumns ==
  ({"Disease", "Description"} \ supporting_data.description.columns)
  \cup (({"Disease"} \cup {PrecautionFields[i] : i \in 1..Len(PrecautionFields)})
          \ supporting_data.precautions.columns)
  \cup ({"Disease", "Medication"} \ supporting_data.medications.columns)
  \cup ({"Disease", "Diet"} \ supporting_data.diets.columns)
  \cup ({"disease", "workout"} \ supporting_data.workout.columns)

\* get_disease_info that takes the first description row, and so raises for a
\* disease the description table has no row for
get_disease_info_first_row(disease) ==
  IF MissingColumns # {} THEN Raise("KeyError")
  ELSE
    LET desc == RowsOf(supporting_data.description, "Disease", disease)
        pre == RowsOf(supporting_data.precautions, "Disease", disease)
        med == RowsOf(supporting_data.medications, "Disease", disease)
        die == RowsOf(supporting_data.diets, "Disease", disease)
        wrkout == RowsOf(supporting_data.workout, "disease", disease)
    IN  IF Len(desc) = 0 THEN Raise("IndexError")
        ELSE Ret([description |-> StrOf(desc[1]["Description"]),
                  precautions |-> precautions_of(pre),
                  medications |-> ColumnTexts(med, "Medication"),
                  diet |-> ColumnTexts(die, "Diet"),
                  workout |-> ColumnTexts(wrkout, "workout")])

\* get_disease_info(disease)
get_disease_info(disease) ==
  IF MissingColumns # {} THEN Raise("KeyError")
  ELSE
    LET desc == RowsOf(supporting_data.description, "Disease", disease)
        pre == RowsOf(supporting_data.precautions, "Disease", disease)
        med == RowsOf(supporting_data.medications, "Disease", disease)
        die == RowsOf(supporting_data.diets, "Disease", disease)
        wrkout == RowsOf(supporting_data.workout, "disease", disease)
    IN  Ret([description |->
               IF Len(desc) > 0 THEN Join(ColumnTexts(desc, "Description"))
                                ELSE "No description available",
             precautions |-> precautions_of(pre),
             medications |-> ColumnTexts(med, "Medication"),
             diet |-> ColumnTexts(die, "Diet"),
             workout |-> ColumnTexts(wrkout, "workout")])

IsStr(s) == s.type = "str"

\* clean_symptoms trimming round brackets along with the list artifacts
clean_symptoms_parentheses(symptoms) ==
  LET stripped == [i \in 1..Len(symptoms) |-> strip(symptoms[i].val, Whitespace)]
      user_symptoms == SelectSeq(stripped, LAMBDA s : s # <<>>)
  IN  [i \in 1..Len(user_symptoms) |->
         strip(user_symptoms[i], ListArtifacts \cup {"(", ")"})]

\* user_symptoms = [s.strip() for s in symptoms if s.strip()]
\* user_symptoms = [sym.strip("[]' '") for sym in user_symptoms]
\* (for a list of strings; an element without a strip method raises)
clean_symptoms(symptoms) ==
  LET stripped == [i \in 1..Len(symptoms) |-> strip(symptoms[i].val, Whitespace)]
      user_symptoms == SelectSeq(stripped, LAMBDA s : s # <<>>)
  IN  [i \in 1..Len(user_symptoms) |-> strip(user_symptoms[i], ListArtifacts)]

\* validate with the invalid symptoms reported once each
validate_distinct(user_symptoms) ==
  LET invalid == SelectSeq(user_symptoms, LAMBDA sym : ~HasKey(symptoms_dict, sym))
      first == {i \in 1..Len(invalid) : \A j \in 1..(i - 1) : invalid[j] # invalid[i]}
  IN  [valid_symptoms |-> SelectSeq(user_symptoms, LAMBDA sym : HasKey(symptoms_dict, sym)),
       invalid_symptoms |->
         [k \in 1..Cardinality(first) |->
            invalid[CHOOSE i \in first : Cardinality({j \in first : j < i}) = k - 1]]]

\* validate with a match that ignores case
validate_caseless(user_symptoms) ==
  [valid_symptoms |->
     SelectSeq(user_symptoms, LAMBDA sym : HasKey(symptoms_dict, lower(sym))),
   invalid_symptoms |->
     SelectSeq(user_symptoms, LAMBDA sym : ~HasKey(symptoms_dict, lower(sym)))]

\* valid_symptoms and invalid_symptoms
validate(user_symptoms) ==
  [valid_symptoms |-> SelectSeq(user_symptoms, LAMBDA sym : HasKey(symptoms_dict, sym)),
   invalid_symptoms |-> SelectSeq(user_symptoms, LAMBDA sym : ~HasKey(symptoms_dict, sym))]

\* no_valid_result with a disease field
no_valid_result_with_disease(invalid_symptoms) ==
  [success |-> FALSE,
   error |-> "No valid symptoms provided",
   predicted_disease |-> "Unknown",
   invalid_symptoms |-> invalid_symptoms,
   message |-> "Please provide valid symptoms from the available list"]

\* the dict returned when no symptom is valid
no_valid_result(invalid_symptoms) ==
  [success |-> FALSE,
   error |-> "No valid symptoms provided",
   invalid_symptoms |-> invalid_symptoms,
   message |-> "Please provide valid symptoms from the available list"]

\* success_result with total_symptoms counting every symptom supplied
success_result_counting_all(predicted_disease, disease_info, valid_symptoms, invalid_symptoms) ==
  [success |-> TRUE,
   predicted_disease |-> predicted_disease,
   confidence |-> "1.0",
   description |-> disease_info.description,
   precautions |-> disease_info.precautions,
   medications |-> disease_info.medications,
   diet |-> disease_info.diet,
   workout |-> disease_info.workout,
   symptoms_detected |-> valid_symptoms,
   invalid_symptoms |-> invalid_symptoms,
   total_symptoms |-> Len(valid_symptoms) + Len(invalid_symptoms)]

\* the dict returned for a prediction
success_result(predicted_disease, disease_info, valid_symptoms, invalid_symptoms) ==
  [success |-> TRUE,
   predicted_disease |-> predicted_disease,
   confidence |-> "1.0",
   description |-> disease_info.description,
   precautions |-> disease_info.precautions,
   medications |-> disease_info.medications,
   diet |-> disease_info.diet,
   workout |-> disease_info.workout,
   symptoms_detected |-> valid_symptoms,
   invalid_symptoms |-> invalid_symptoms,
   total_symptoms |-> Len(valid_symptoms)]

\* get_prediction_with_details without its except clause: the exception escapes
error_escapes(exc) == Raise(exc)

\* the dict returned by the except clause; error is str(e), modelled by the
\* name of the exception's class
error_result(exc) ==
  [success |-> FALSE, error |-> exc, message |-> "Error in prediction process"]

\* get_prediction_with_details(symptoms): ret is the dict returned; model_inputs
\* and labels record the classifier calls made on the way
get_prediction_with_details(symptoms) ==
  IF \E i \in 1..Len(symptoms) : ~IsStr(symptoms[i])
    THEN [ret |-> error_result("AttributeError"), model_inputs |-> <<>>, labels |-> <<>>]
  ELSE
    LET user_symptoms == clean_symptoms(symptoms)
        v == validate(user_symptoms)
    IN  IF v.valid_symptoms = <<>>
          THEN [ret |-> no_valid_result(v.invalid_symptoms),
                model_inputs |-> <<>>, labels |-> <<>>]
        ELSE
          LET predicted == predict_disease(v.valid_symptoms)
              disease_info == get_disease_info(predicted.val)
          IN  [ret |-> IF predicted.raised THEN error_result(predicted.exc)
                       ELSE IF disease_info.raised THEN error_result(disease_info.exc)
                       ELSE success_result(predicted.val, disease_info.val,
                                           v.valid_symptoms, v.invalid_symptoms),
               model_inputs |-> predicted.model_inputs,
               labels |-> predicted.labels]

\* get_all_symptoms()
get_all_symptoms == Keys(symptoms_dict)

\* get_all_diseases()
get_all_diseases == Values(diseases_list)

\* search_symptoms(query, limit)
search_symptoms(query, limit) ==
  LET q == lower(query)
      matching_symptoms ==
        SelectSeq(Keys(symptoms_dict), LAMBDA symptom : IsSubstring(q, lower(symptom)))
  IN  SliceTo(matching_symptoms, limit)

-----------------------------------------------------------------------------
(* The service: startup (run.py, app.py, routes/ml.py), the audit log       *)
(* (utils/db_config.py) and the prediction routes (routes/ml.py).           *)

\* the module's predictor after MedicinePredictor() succeeded; Python's None
Loaded == "MedicinePredictor"
None == "None"

\* the files load_model_and_data opens
AssetFiles ==
  {"svc.pkl", "symtoms_df.csv", "precautions_df.csv", "workout_df.csv",
   "description.csv", "medications.csv", "diets.csv"}

\* load_model_and_data with some files missing: a missing svc.pkl raises
\* FileNotFoundError, and so does pd.read_csv of a missing file
load_model_and_data(missing) ==
  IF missing \cap AssetFiles # {} THEN Raise("FileNotFoundError") ELSE Ret(Loaded)

\* routes/ml.py, at import: predictor = MedicinePredictor(), None when it raises
module_predictor(missing) ==
  IF load_model_and_data(missing).raised THEN None ELSE Loaded

\* run.py: the files check_ml_assets looks for
required_files == {"svc.pkl", "symtoms_df.csv", "description.csv", "medications.csv"}

\* run.py: check_ml_assets()
check_ml_assets(missing) == missing \cap required_files = {}

\* the process starts the server: run.py's main() exits when check_ml_assets
\* fails; app.py and server.py import the routes and run the app
starts_server(entry, missing) == entry = "run.py" => check_ml_assets(missing)

\* JSON values of a request: null, a list, an object (a dict, as a sequence of
\* <<key, value>> pairs); strings and numbers are the tokens Str and Num
JsonNull == [type |-> "null"]
JsonList(items) == [type |-> "list", val |-> items]
JsonObject(items) == [type |-> "object", val |-> items]

\* not v
Falsy(v) ==
  \/ v.type = "null"
  \/ v.type \in {"list", "object", "str"} /\ v.val = <<>>
  \/ v.type = "int" /\ v.val = <<"0">>

\* d[key] = value
SetItem(d, key, value) ==
  [k \in DOMAIN d \cup {key} |-> IF k = key THEN value ELSE d[k]]

\* d.get(key)
GetOrNone(d, key) == IF key \in DOMAIN d THEN d[key] ELSE None

\* datetime.now().isoformat(), datetime.utcnow(), str(result.inserted_id)
Now == "now"
UtcNow == "utcnow"
InsertedId == "inserted_id"

\* the states of the database a request can meet: get_db() returns the
\* database and insert_one works; get_db() returns None; insert_one raises;
\* the import of utils.db_config raises
DbStates == {"up", "down", "insert_fails", "import_fails"}

\* save_prediction_log(user_id, symptoms, prediction_result, metadata): the id
\* of the inserted document or None, and the documents inserted
save_prediction_log(db, user_id, symptoms, prediction_result, metadata) ==
  IF db = "down" THEN [val |-> None, inserted |-> <<>>]
  ELSE
    LET log_entry ==
          [user_id |-> user_id,
           symptoms |-> symptoms,
           predicted_disease |-> GetOrNone(prediction_result, "predicted_disease"),
           confidence |-> GetOrNone(prediction_result, "confidence"),
           success |-> GetOrNone(prediction_result, "success"),
           timestamp |-> UtcNow,
           metadata |-> metadata]
    IN  IF db = "insert_fails" THEN [val |-> None, inserted |-> <<>>]
        ELSE [val |-> InsertedId, inserted |-> <<log_entry>>]

\* the try block without the condition on result.get('success')
log_prediction_always(db, user_id, symptoms, result, metadata) ==
  IF db = "import_fails"
    THEN [raised |-> FALSE, exc |-> "", val |-> None, inserted |-> <<>>]
  ELSE LET saved == save_prediction_log(db, user_id, symptoms, result, metadata)
       IN  [raised |-> FALSE, exc |-> "", val |-> saved.val,
            inserted |-> saved.inserted]

\* the statements of the try block without the try
log_prediction_unguarded(db, user_id, symptoms, result, metadata) ==
  IF db = "import_fails"
    THEN [raised |-> TRUE, exc |-> "ImportError", val |-> None, inserted |-> <<>>]
  ELSE IF GetOrNone(result, "success") = TRUE
    THEN LET saved == save_prediction_log(db, user_id, symptoms, result, metadata)
         IN  IF db = "insert_fails"
               THEN [raised |-> TRUE, exc |-> "PyMongoError", val |-> None,
                     inserted |-> <<>>]
               ELSE [raised |-> FALSE, exc |-> "", val |-> saved.val,
                     inserted |-> saved.inserted]
  ELSE [raised |-> FALSE, exc |-> "", val |-> None, inserted |-> <<>>]

\* the try block of the routes that saves the prediction: the import, and
\* save_prediction_log if result.get('success'); an exception is logged and
\* dropped
log_prediction(db, user_id, symptoms, result, metadata) ==
  IF db = "import_fails"
    THEN [raised |-> FALSE, exc |-> "", val |-> None, inserted |-> <<>>]
  ELSE IF GetOrNone(result, "success") = TRUE
    THEN LET saved == save_prediction_log(db, user_id, symptoms, result, metadata)
         IN  [raised |-> FALSE, exc |-> "", val |-> saved.val,
              inserted |-> saved.inserted]
  ELSE [raised |-> FALSE, exc |-> "", val |-> None, inserted |-> <<>>]

\* return jsonify(body), status
Respond(status, body, inserted) ==
  [status |-> status, body |-> body, inserted |-> inserted]

\* POST /predict: predict_medicine() for the JSON body data, with the database
\* in state db
predict_medicine(data, db) ==
  IF predictor = None
    THEN Respond(500, [success |-> FALSE, message |-> "ML model not available",
                       error |-> "Predictor not initialized"], <<>>)
  ELSE IF Falsy(data)
    THEN Respond(400, [success |-> FALSE, message |-> "No data provided"], <<>>)
  ELSE IF data.type # "object"
    THEN Respond(500, [success |-> FALSE,
                       message |-> "Internal server error during prediction",
                       error |-> "AttributeError"], <<>>)
  ELSE
    LET symptoms == IF HasKey(data.val, "symptoms") THEN Get(data.val, "symptoms")
                                                    ELSE JsonList(<<>>)
    IN  IF Falsy(symptoms) \/ symptoms.type # "list"
          THEN Respond(400, [success |-> FALSE,
                             message |-> "Symptoms list is required and must be an array"],
                       <<>>)
        ELSE
          LET run == get_prediction_with_details(symptoms.val)
              result == SetItem(SetItem(run.ret, "timestamp", Now),
                                "model_version", "1.0.0")
              log == log_prediction(db, "anonymous", symptoms.val, result,
                                    [source |-> "anonymous_prediction",
                                     ip_address |-> "remote_addr"])
          IN  IF log.raised
                THEN Respond(500, [success |-> FALSE,
                                   message |-> "Internal server error during prediction",
                                   error |-> log.exc], log.inserted)
                ELSE Respond(IF result.success THEN 200 ELSE 400, result,
                             log.inserted)

\* get_jwt_identity() of a request without a token
NoIdentity == "no token"

\* POST /predict-authenticated: jwt_required and
\* predict_medicine_authenticated() for the identity of the token and the JSON
\* body data, with the database in state db
predict_medicine_authenticated(identity, data, db) ==
  IF identity = NoIdentity
    THEN Respond(401, [msg |-> "Missing Authorization Header"], <<>>)
  ELSE IF predictor = None
    THEN Respond(500, [success |-> FALSE, message |-> "ML model not available"],
                 <<>>)
  ELSE IF data.type # "object"
    THEN Respond(500, [success |-> FALSE, message |-> "Internal server error",
                       error |-> "AttributeError"], <<>>)
  ELSE
    LET user_id == identity
        symptoms == IF HasKey(data.val, "symptoms") THEN Get(data.val, "symptoms")
                                                    ELSE JsonList(<<>>)
    IN  IF Falsy(symptoms) \/ symptoms.type # "list"
          THEN Respond(400, [success |-> FALSE,
                             message |-> "Symptoms list is required"], <<>>)
        ELSE
          LET run == get_prediction_with_details(symptoms.val)
              result == SetItem(SetItem(run.ret, "user_id", user_id),
                                "timestamp", Now)
              log == log_prediction(db, user_id, symptoms.val, result,
                                    [source |-> "authenticated_prediction",
                                     ip_address |-> "remote_addr",
                                     user_agent |-> "User-Agent"])
          IN  IF log.raised
                THEN Respond(500, [success |-> FALSE,
                                   message |-> "Internal server error",
                                   error |-> log.exc], log.inserted)
                ELSE Respond(IF result.success THEN 200 ELSE 400,
                             IF log.val # None
                               THEN SetItem(result, "prediction_id", log.val)
                               ELSE result,
                             log.inserted)

\* a query parameter: absent, an integer in decimal, or a text that int()
\* does not parse
NoArg == [kind |-> "missing"]
IntArg(n) == [kind |-> "int", val |-> n]
TextArg == [kind |-> "text"]

\* int(request.args.get('limit', 10))
int_limit(limit_arg) ==
  IF limit_arg.kind = "missing" THEN Ret(10)
  ELSE IF limit_arg.kind = "int" THEN Ret(limit_arg.val)
  ELSE Raise("ValueError")

\* min(a, b)
min(a, b) == IF a <= b THEN a ELSE b

\* GET /symptoms/search: search_symptoms() of routes/ml.py for the query
\* parameters q (a text, empty when absent) and limit
search_symptoms_endpoint(q, limit_arg) ==
  IF predictor = None
    THEN Respond(500, [success |-> FALSE, message |-> "ML model not available"],
                 <<>>)
  ELSE
    LET query == strip(q, Whitespace)
        parsed == int_limit(limit_arg)
    IN  IF parsed.raised
          THEN Respond(500, [success |-> FALSE,
                             message |-> "Error searching symptoms",
                             error |-> parsed.exc], <<>>)
        ELSE IF query = <<>>
          THEN Respond(400, [success |-> FALSE,
                             message |-> "Query parameter \"q\" is required"], <<>>)
        ELSE IF Len(query) < 2
          THEN Respond(400, [success |-> FALSE,
                             message |-> "Query must be at least 2 characters long"],
                       <<>>)
        ELSE
          LET limit == min(parsed.val, 50)
              matching_symptoms == search_symptoms(query, limit)
          IN  Respond(200, [success |-> TRUE, query |-> query,
                            symptoms |-> matching_symptoms,
                            count |-> Len(matching_symptoms)], <<>>)

\* the loop of validate_symptoms_endpoint over stripped symptoms: the valid
\* ones, the invalid ones, and the suggestions for the invalid ones that
\* have any
RECURSIVE validate_loop(_)
validate_loop(stripped) ==
  IF stripped = <<>>
    THEN [valid_symptoms |-> <<>>, invalid_symptoms |-> <<>>, suggestions |-> <<>>]
  ELSE
    LET symptom == Head(stripped)
        rest == validate_loop(Tail(stripped))
        similar == search_symptoms(symptom, 3)
    IN  IF HasKey(symptoms_dict, symptom)
          THEN [rest EXCEPT !.valid_symptoms = <<symptom>> \o @]
          ELSE [rest EXCEPT
                  !.invalid_symptoms = <<symptom>> \o @,
                  !.suggestions =
                     IF similar # <<>> /\ ~HasKey(@, symptom)
                       THEN << <<symptom, similar>> >> \o @
                       ELSE @]

\* POST /validate-symptoms: validate_symptoms_endpoint() for the JSON body data
validate_symptoms_endpoint(data) ==
  IF predictor = None
    THEN Respond(500, [success |-> FALSE, message |-> "ML model not available"],
                 <<>>)
  ELSE IF data.type # "object"
    THEN Respond(500, [success |-> FALSE, message |-> "Error validating symptoms",
                       error |-> "AttributeError"], <<>>)
  ELSE
    LET symptoms == IF HasKey(data.val, "symptoms") THEN Get(data.val, "symptoms")
                                                    ELSE JsonList(<<>>)
    IN  IF symptoms.type # "list"
          THEN Respond(400, [success |-> FALSE,
                             message |-> "Symptoms must be provided as an array"],
                       <<>>)
        ELSE IF \E i \in 1..Len(symptoms.val) : ~IsStr(symptoms.val[i])
          THEN Respond(500, [success |-> FALSE,
                             message |-> "Error validating symptoms",
                             error |-> "AttributeError"], <<>>)
        ELSE
          LET stripped == [i \in 1..Len(symptoms.val) |->
                             strip(symptoms.val[i].val, Whitespace)]
              v == validate_loop(stripped)
          IN  Respond(200,
                      [success |-> TRUE,
                       valid_symptoms |-> v.valid_symptoms,
                       invalid_symptoms |-> v.invalid_symptoms,
                       suggestions |-> v.suggestions,
                       validation_summary |->
                         [total |-> Len(symptoms.val),
                          valid |-> Len(v.valid_symptoms),
                          invalid |-> Len(v.invalid_symptoms)]],
                      <<>>)

-----------------------------------------------------------------------------
(* The callers' inputs.                                                    *)

Str(chars) == [type |-> "str", val |-> chars]
Num(digits) == [type |-> "int", val |-> digits]

cough == <<"c","o","u","g","h">>
headache == <<"h","e","a","d","a","c","h","e">>
fever == <<"f","e","v","e","r">>

\* the JSON values a caller puts in the 'symptoms' list
Tokens ==
  { Str(cough),                                   \* "cough", a vocabulary name
    Str(headache),                                \* "headache", a vocabulary name
    Str(fever),                                   \* "fever", no vocabulary name
    Str(<<"C">> \o Tail(cough)),                  \* "Cough"
    Str(<<" ">> \o cough \o <<"\t">>),            \* " cough<TAB>"
    Str(<<"[", "'">> \o headache \o <<"'", "]">>),\* "['headache']"
    Str(<<"[", "\t">> \o cough \o <<"]">>),       \* "[<TAB>cough]"
    Str(<<"[", "]">>),                            \* "[]"
    Str(<<" ", "\t">>),                           \* " <TAB>"
    Str(<<>>),                                    \* ""
    Num(<<"5">>) }                                \* 5

RECURSIVE ListsUpTo(_, _)
ListsUpTo(S, n) ==
  IF n = 0 THEN {<<>>}
  ELSE LET shorter == ListsUpTo(S, n - 1)
       IN  shorter \cup {Append(l, x) : l \in shorter, x \in S}

SymptomLists == ListsUpTo(Tokens, MaxLen)

\* the lists of the callers that send the same request again
RepeatTokens == {Str(cough), Str(headache), Str(fever), Num(<<"5">>)}
RepeatLists == ListsUpTo(RepeatTokens, MaxLen)

\* the search queries and limits a caller sends
Queries ==
  {<<"a","c","h","e">>, <<"A","c","H">>, <<"P","a","i","N">>,
   <<"x","y","z","z","y">>, <<"_"," ">>}
Limits == {-1, 0, 2, 10}

\* JSON bodies of the prediction requests: null, {}, {"symptoms": "cough"} and
\* {"symptoms": [...]}
Bodies ==
  {JsonNull, JsonObject(<<>>), JsonObject(<< <<"symptoms", Str(cough)>> >>)}
  \cup {JsonObject(<< <<"symptoms", JsonList(l)>> >>) : l \in RepeatLists}

\* the identity of the request's token
Identities == {NoIdentity, "user-1"}

\* how the process is started, and the asset files missing when it starts
EntryPoints == {"run.py", "app.py", "server.py"}
MissingFileSets == {{}, {"svc.pkl"}, {"diets.csv"}}

\* the query parameters of GET /symptoms/search
SearchTexts ==
  {<<"i","n">>, <<"P","a","i","N">>, <<" ","x","y","z","z","y"," ">>, <<"p">>, <<>>}
LimitArgs == {NoArg, TextArg} \cup {IntArg(n) : n \in {-1, 0, 2, 50, 60}}

\* JSON bodies of the validation requests: tokens as the forms send them,
\* bare, with blanks around, and as the text of a list
ValidateTokens ==
  {Str(cough), Str(<<" ">> \o cough), Str(<<"[">> \o cough \o <<"]">>), Str(fever)}
ValidateBodies ==
  {JsonNull, JsonObject(<<>>), JsonObject(<< <<"symptoms", Str(cough)>> >>),
   JsonObject(<< <<"symptoms", JsonList(<<Num(<<"5">>)>>)>> >>)}
  \cup {JsonObject(<< <<"symptoms", JsonList(l)>> >>) :
          l \in ListsUpTo(ValidateTokens, MaxLen)}

-----------------------------------------------------------------------------
(* The state machine: the predictor after load, and the calls on it, made    *)
(* one after the other.                                                    *)

NoCall == [op |-> "none"]

\* no request is being answered
NoExchange == [endpoint |-> "none"]

\* the workers that execute calls on the predictor concurrently, and the
\* state in which none of them executes a call
Workers == {"worker-1", "worker-2"}
NoFrames == [w \in Workers |-> NoCall]

\* the hexadecimal form of an ObjectId: str(user['_id'])
Hex(prefix, last) == prefix \o <<last>>
IdPrefix ==
  <<"6","4","b","7","f","3","a","1","c","2","d","4","e","5","f","6",
    "0","1","2","3","4","5","6">>
AdminId == Hex(IdPrefix, "a")
DoctorId == Hex(IdPrefix, "b")
PatientId == Hex(IdPrefix, "c")

\* generate_password_hash(password)
generate_password_hash(password) == <<"hash", password>>

\* a field a document does not have
Absent == [absent |-> TRUE]

\* a document of db.users
User(id, email, password, role) ==
  [_id |-> id, email |-> email, password_hash |-> generate_password_hash(password),
   role |-> role, is_active |-> TRUE, reset_token |-> Absent,
   reset_token_expires |-> Absent]

\* the accounts create_admin.py makes
SeedUsers ==
  << User(AdminId, <<"a","d","m","i","n","@","m","e","d","i","c","i","n","e",".","c","o","m">>,
          <<"a","d","m","i","n","1","2","3">>, "admin"),
     User(DoctorId, <<"d","o","c","t","o","r","@","m","e","d","i","c","i","n","e",".","c","o","m">>,
          <<"d","o","c","t","o","r","1","2","3">>, "doctor"),
     User(PatientId, <<"p","a","t","i","e","n","t","@","m","e","d","i","c","i","n","e",".","c","o","m">>,
          <<"p","a","t","i","e","n","t","1","2","3">>, "patient") >>

\* Init with a vocabulary whose last name has the index of the first
Init_shared_index ==
  /\ symptoms_dict =
       [i \in 1..Len(SymptomItems) |->
          IF i = Len(SymptomItems)
            THEN <<SymptomItems[i][1], SymptomItems[1][2]>>
            ELSE SymptomItems[i]]
  /\ diseases_list = DiseaseItems
  /\ supporting_data \in ReferenceTableSets
  /\ model \in Artifacts
  /\ call = NoCall
  /\ earlier = NoCall
  /\ predictor = Loaded
  /\ serving = TRUE
  /\ exchange = NoExchange
  /\ frames = NoFrames
  /\ users = SeedUsers
  /\ clock = 0
  /\ issued = 0

Init ==
  /\ symptoms_dict = SymptomItems
  /\ diseases_list = DiseaseItems
  /\ supporting_data \in ReferenceTableSets
  /\ model \in Artifacts
  /\ call = NoCall
  /\ earlier = NoCall
  /\ predictor = Loaded
  /\ serving = TRUE
  /\ exchange = NoExchange
  /\ frames = NoFrames
  /\ users = SeedUsers
  /\ clock = 0
  /\ issued = 0

\* Predict with the catalog entry taken out of the catalog (diseases_list.pop)
Predict_popping(symptoms) ==
  LET run == get_prediction_with_details(symptoms)
  IN  /\ call = NoCall
      /\ call' = [op |-> "predict", symptoms |-> symptoms, ret |-> run.ret,
                  model_inputs |-> run.model_inputs, labels |-> run.labels]
      /\ diseases_list' =
           IF run.labels # <<>>
             THEN SelectSeq(diseases_list, LAMBDA entry : entry[1] # run.labels[1])
             ELSE diseases_list
      /\ UNCHANGED <<symptoms_dict, supporting_data, model, earlier, service>>

\* predictor.get_prediction_with_details(symptoms)
Predict(symptoms) ==
  LET run == get_prediction_with_details(symptoms)
  IN  /\ call = NoCall
      /\ call' = [op |-> "predict", symptoms |-> symptoms, ret |-> run.ret,
                  model_inputs |-> run.model_inputs, labels |-> run.labels]
      /\ UNCHANGED <<symptoms_dict, diseases_list, supporting_data, model, earlier, service>>

\* predictor.search_symptoms(query, limit)
Search(query, limit) ==
  /\ call = NoCall
  /\ call' = [op |-> "search", query |-> query, limit |-> limit,
              ret |-> search_symptoms(query, limit)]
  /\ UNCHANGED <<symptoms_dict, diseases_list, supporting_data, model, earlier, service>>

\* predictor.get_all_symptoms()
AllSymptoms ==
  /\ call = NoCall
  /\ call' = [op |-> "all_symptoms", ret |-> get_all_symptoms]
  /\ UNCHANGED <<symptoms_dict, diseases_list, supporting_data, model, earlier, service>>

\* predictor.get_all_diseases()
AllDiseases ==
  /\ call = NoCall
  /\ call' = [op |-> "all_diseases", ret |-> get_all_diseases]
  /\ UNCHANGED <<symptoms_dict, diseases_list, supporting_data, model, earlier, service>>

\* the call returns to its caller: its arguments, locals and result are dropped
Return ==
  /\ call # NoCall
  /\ call' = NoCall
  /\ UNCHANGED <<symptoms_dict, diseases_list, supporting_data, model, earlier, service>>

\* the call returns to a caller that keeps the answer to its prediction
\* request, to compare it with the answer to a later request
ReturnKept ==
  /\ call # NoCall
  /\ call.op = "predict"
  /\ earlier' = call
  /\ call' = NoCall
  /\ UNCHANGED <<symptoms_dict, diseases_list, supporting_data, model, service>>

Next ==
  \/ \E symptoms \in SymptomLists : Predict(symptoms)
  \/ \E query \in Queries, limit \in Limits : Search(query, limit)
  \/ AllSymptoms
  \/ AllDiseases
  \/ Return

Spec == Init /\ [][Next]_vars

\* callers that repeat prediction requests and compare the answers
NextRepeat ==
  \/ \E symptoms \in RepeatLists : Predict(symptoms)
  \/ \E query \in Queries, limit \in Limits : Search(query, limit)
  \/ AllSymptoms
  \/ AllDiseases
  \/ Return
  \/ ReturnKept

SpecRepeat == Init /\ [][NextRepeat]_vars

\* the process after startup: started through an entry point with some asset
\* files missing; it serves unless run.py exited, and the predictor of
\* routes/ml.py is None when MedicinePredictor() raised
InitService ==
  \E entry \in EntryPoints, missing \in MissingFileSets :
    /\ serving = starts_server(entry, missing)
    /\ predictor = IF serving THEN module_predictor(missing) ELSE None
    /\ IF predictor = Loaded
         THEN /\ symptoms_dict = SymptomItems
              /\ diseases_list = DiseaseItems
              /\ supporting_data \in ReferenceTableSets
              /\ model \in Artifacts
         ELSE /\ symptoms_dict = None
              /\ diseases_list = None
              /\ supporting_data = None
              /\ model = None
    /\ call = NoCall
    /\ earlier = NoCall
    /\ exchange = NoExchange
    /\ frames = NoFrames
    /\ users = SeedUsers
    /\ clock = 0
    /\ issued = 0

\* POST /api/ml/predict
PredictMedicine(data, db) ==
  LET response == predict_medicine(data, db)
  IN  /\ serving
      /\ exchange = NoExchange
      /\ exchange' = [endpoint |-> "/predict", identity |-> NoIdentity,
                      data |-> data, db |-> db, status |-> response.status,
                      body |-> response.body, inserted |-> response.inserted]
      /\ UNCHANGED <<engine, call, earlier, predictor, serving, frames, accounts>>

\* POST /api/ml/predict-authenticated
PredictMedicineAuthenticated(identity, data, db) ==
  LET response == predict_medicine_authenticated(identity, data, db)
  IN  /\ serving
      /\ exchange = NoExchange
      /\ exchange' = [endpoint |-> "/predict-authenticated", identity |-> identity,
                      data |-> data, db |-> db, status |-> response.status,
                      body |-> response.body, inserted |-> response.inserted]
      /\ UNCHANGED <<engine, call, earlier, predictor, serving, frames, accounts>>

\* GET /api/ml/symptoms/search
SearchSymptoms(q, limit_arg) ==
  LET response == search_symptoms_endpoint(q, limit_arg)
  IN  /\ serving
      /\ exchange = NoExchange
      /\ exchange' = [endpoint |-> "/symptoms/search", q |-> q,
                      limit |-> limit_arg, status |-> response.status,
                      body |-> response.body]
      /\ UNCHANGED <<engine, call, earlier, predictor, serving, frames, accounts>>

\* POST /api/ml/validate-symptoms
ValidateSymptoms(data) ==
  LET response == validate_symptoms_endpoint(data)
  IN  /\ serving
      /\ exchange = NoExchange
      /\ exchange' = [endpoint |-> "/validate-symptoms", data |-> data,
                      status |-> response.status, body |-> response.body]
      /\ UNCHANGED <<engine, call, earlier, predictor, serving, frames, accounts>>

\* the response is sent: the request is over
SendResponse ==
  /\ exchange # NoExchange
  /\ exchange' = NoExchange
  /\ UNCHANGED <<engine, call, earlier, predictor, serving, frames, accounts>>

NextService ==
  \/ \E data \in Bodies, db \in DbStates : PredictMedicine(data, db)
  \/ \E identity \in Identities, data \in Bodies, db \in DbStates :
       PredictMedicineAuthenticated(identity, data, db)
  \/ \E q \in SearchTexts, limit_arg \in LimitArgs : SearchSymptoms(q, limit_arg)
  \/ \E data \in ValidateBodies : ValidateSymptoms(data)
  \/ SendResponse

SpecService == InitService /\ [][NextService]_vars

\* a catalog that maps two labels to one display name (the names of the
\* catalog of load_model_and_data are distinct)
RepeatedNameCatalog == Append(DiseaseItems, <<Len(DiseaseItems), "Fungal infection">>)

Catalogs == {DiseaseItems, RepeatedNameCatalog}

\* a predictor with any of the catalogs
InitCatalog ==
  /\ symptoms_dict = SymptomItems
  /\ diseases_list \in Catalogs
  /\ supporting_data \in ReferenceTableSets
  /\ model \in Artifacts
  /\ call = NoCall
  /\ earlier = NoCall
  /\ predictor = Loaded
  /\ serving = TRUE
  /\ exchange = NoExchange
  /\ frames = NoFrames
  /\ users = SeedUsers
  /\ clock = 0
  /\ issued = 0

\* the listing calls on the predictor
NextCatalog ==
  \/ \E query \in Queries, limit \in Limits : Search(query, limit)
  \/ AllSymptoms
  \/ AllDiseases
  \/ Return

SpecCatalog == InitCatalog /\ [][NextCatalog]_vars

\* the requests of the concurrent workers
ConcurrentLists ==
  {<<Str(cough)>>, <<Str(headache), Str(fever)>>, <<Str(fever)>>, <<Num(<<"5">>)>>}
ConcurrentQueries == {<<"P","a","i","N">>, <<"x","y","z","z","y">>}
ConcurrentLimits == {-1, 2}

\* worker w goes on to the frame; nothing else changes
Step(w, frame) ==
  /\ frames' = [frames EXCEPT ![w] = frame]
  /\ UNCHANGED <<engine, call, earlier, predictor, serving, exchange, accounts>>

\* the call of worker w is over with the result ret
Done(w, ret) == [frames[w] EXCEPT !.pc = "done"] @@ [ret |-> ret]

At(w, op, pc) ==
  /\ frames[w] # NoCall
  /\ frames[w].op = op
  /\ frames[w].pc = pc

\* a worker calls get_prediction_with_details(symptoms)
BeginPredict(w, symptoms) ==
  /\ frames[w] = NoCall
  /\ Step(w, [op |-> "predict", pc |-> "clean", symptoms |-> symptoms])

\* lines 168-169: the two comprehensions; s.strip() raises for a non-string
Clean(w) ==
  /\ At(w, "predict", "clean")
  /\ IF \E i \in 1..Len(frames[w].symptoms) : ~IsStr(frames[w].symptoms[i])
       THEN Step(w, Done(w, error_result("AttributeError")))
       ELSE Step(w, [frames[w] EXCEPT !.pc = "validate"]
                      @@ [user_symptoms |-> clean_symptoms(frames[w].symptoms)])

\* lines 172-181: valid_symptoms, invalid_symptoms, and the return without a
\* valid symptom
Validate(w) ==
  /\ At(w, "predict", "validate")
  /\ LET v == validate(frames[w].user_symptoms)
     IN  IF v.valid_symptoms = <<>>
           THEN Step(w, Done(w, no_valid_result(v.invalid_symptoms)))
           ELSE Step(w, [frames[w] EXCEPT !.pc = "vector"]
                          @@ [valid_symptoms |-> v.valid_symptoms,
                              invalid_symptoms |-> v.invalid_symptoms])

\* lines 112-116: the call's own input_vector
BuildVector(w) ==
  /\ At(w, "predict", "vector")
  /\ Step(w, [frames[w] EXCEPT !.pc = "classify"]
               @@ [input_vector |-> feature_vector(frames[w].valid_symptoms)])

\* line 118: self.model.predict([input_vector])[0]
ClassifyVector(w) ==
  /\ At(w, "predict", "classify")
  /\ LET prediction == Classify(model, frames[w].input_vector)
     IN  IF prediction.raised
           THEN Step(w, Done(w, error_result(prediction.exc)))
           ELSE Step(w, [frames[w] EXCEPT !.pc = "lookup"]
                          @@ [prediction |-> prediction.val])

\* Lookup with the entry taken out of the catalog (diseases_list.pop)
Lookup_popping(w) ==
  /\ At(w, "predict", "lookup")
  /\ frames' =
       [frames EXCEPT ![w] =
          IF HasKey(diseases_list, frames[w].prediction)
            THEN [frames[w] EXCEPT !.pc = "info"]
                   @@ [predicted_disease |-> Get(diseases_list, frames[w].prediction)]
            ELSE Done(w, error_result("KeyError"))]
  /\ diseases_list' =
       SelectSeq(diseases_list, LAMBDA entry : entry[1] # frames[w].prediction)
  /\ UNCHANGED <<symptoms_dict, supporting_data, model, call, earlier, predictor,
                 serving, exchange, accounts>>

\* line 119: self.diseases_list[prediction]
Lookup(w) ==
  /\ At(w, "predict", "lookup")
  /\ IF HasKey(diseases_list, frames[w].prediction)
       THEN Step(w, [frames[w] EXCEPT !.pc = "info"]
                      @@ [predicted_disease |-> Get(diseases_list, frames[w].prediction)])
       ELSE Step(w, Done(w, error_result("KeyError")))

\* lines 187-201: get_disease_info and the result
Enrich(w) ==
  /\ At(w, "predict", "info")
  /\ LET disease_info == get_disease_info(frames[w].predicted_disease)
     IN  IF disease_info.raised
           THEN Step(w, Done(w, error_result(disease_info.exc)))
           ELSE Step(w, Done(w, success_result(frames[w].predicted_disease,
                                               disease_info.val,
                                               frames[w].valid_symptoms,
                                               frames[w].invalid_symptoms)))

\* a worker calls search_symptoms(query, limit)
BeginSearch(w, query, limit) ==
  /\ frames[w] = NoCall
  /\ Step(w, [op |-> "search", pc |-> "filter", query |-> query, limit |-> limit])

\* lines 220-224: the comprehension over the keys
FilterNames(w) ==
  /\ At(w, "search", "filter")
  /\ LET q == lower(frames[w].query)
     IN  Step(w, [frames[w] EXCEPT !.pc = "slice"]
                   @@ [matching_symptoms |->
                         SelectSeq(Keys(symptoms_dict),
                                   LAMBDA symptom : IsSubstring(q, lower(symptom)))])

\* line 225: matching_symptoms[:limit]
SliceNames(w) ==
  /\ At(w, "search", "slice")
  /\ Step(w, Done(w, SliceTo(frames[w].matching_symptoms, frames[w].limit)))

\* a worker calls get_all_symptoms()
ListSymptoms(w) ==
  /\ frames[w] = NoCall
  /\ Step(w, [op |-> "all_symptoms", pc |-> "done", ret |-> get_all_symptoms])

\* a worker calls get_all_diseases()
ListDiseases(w) ==
  /\ frames[w] = NoCall
  /\ Step(w, [op |-> "all_diseases", pc |-> "done", ret |-> get_all_diseases])

\* the call of worker w returns
Finish(w) ==
  /\ frames[w] # NoCall
  /\ frames[w].pc = "done"
  /\ Step(w, NoCall)

NextConcurrent ==
  \E w \in Workers :
    \/ \E symptoms \in ConcurrentLists : BeginPredict(w, symptoms)
    \/ Clean(w)
    \/ Validate(w)
    \/ BuildVector(w)
    \/ ClassifyVector(w)
    \/ Lookup(w)
    \/ Enrich(w)
    \/ \E query \in ConcurrentQueries, limit \in ConcurrentLimits :
         BeginSearch(w, query, limit)
    \/ FilterNames(w)
    \/ SliceNames(w)
    \/ ListSymptoms(w)
    \/ ListDiseases(w)
    \/ Finish(w)

SpecConcurrent == Init /\ [][NextConcurrent]_vars

\* ---- every name of the vocabulary asked for on its own ----
\* the requests are the one-element lists of the names get_all_symptoms()
\* returns
NextVocabulary ==
  \/ \E i \in 1..Len(symptoms_dict) : Predict(<<Str(get_all_symptoms[i])>>)
  \/ Return

SpecVocabulary == Init /\ [][NextVocabulary]_vars

\* ---- accounts: password reset (routes/auth.py) ----
Letters == {UpperCase[k] : k \in 1..Len(UpperCase)} \cup {LowerCase[k] : k \in 1..Len(LowerCase)}
DigitChars == {"0", "1", "2", "3", "4", "5", "6", "7", "8", "9"}

AllIn(s, chars) == \A i \in 1..Len(s) : s[i] \in chars

\* validate_email(email): the pattern
\* ^[a-zA-Z0-9._%+-]+@[a-zA-Z0-9.-]+\.[a-zA-Z]{2,}$
validate_email(email) ==
  \E at \in 2..Len(email), dot \in 3..Len(email) :
    /\ email[at] = "@"
    /\ email[dot] = "."
    /\ dot >= at + 2
    /\ Len(email) >= dot + 2
    /\ AllIn(SubSeq(email, 1, at - 1), Letters \cup DigitChars \cup {".", "_", "%", "+", "-"})
    /\ AllIn(SubSeq(email, at + 1, dot - 1), Letters \cup DigitChars \cup {".", "-"})
    /\ AllIn(SubSeq(email, dot + 1, Len(email)), Letters)

\* validate_password(password): is_valid and the message
validate_password(password) ==
  IF Len(password) < 6
    THEN [is_valid |-> FALSE, message |-> "Password must be at least 6 characters long"]
  ELSE IF ~\E i \in 1..Len(password) : password[i] \in Letters
    THEN [is_valid |-> FALSE, message |-> "Password must contain at least one letter"]
  ELSE IF ~\E i \in 1..Len(password) : password[i] \in DigitChars
    THEN [is_valid |-> FALSE, message |-> "Password must contain at least one number"]
  ELSE [is_valid |-> TRUE, message |-> "Password is valid"]

\* secrets.token_urlsafe(32): the n-th secret drawn; no two draws are equal
\* and none can be guessed before it is drawn
token_urlsafe(n) ==
  <<"t", "o", "k", "e", "n", "-">> \o <<CHOOSE c \in DigitChars : c = ToString(n)>>

\* hashlib.sha256(text.encode()).hexdigest()
sha256(text) == [sha256 |-> text]

\* datetime.utcnow(): the clock counts half hours
utcnow == [utc |-> clock]
timedelta(hours) == 2 * hours

\* the database of the request: connected, get_db() returning None, or a
\* connected Database object whose truth value the driver refuses to give
\* (bool(db) raises NotImplementedError in the driver's later releases)
AccountDbStates == {"up", "down", "no_truth_value"}

\* get_user_by_email(email): the place of the first matching document;
\* found is FALSE where the function returns None
get_user_by_email(email, db) ==
  IF db = "down" \/ ~\E i \in 1..Len(users) : users[i].email = email
    THEN [found |-> FALSE]
    ELSE [found |-> TRUE,
          at |-> CHOOSE i \in 1..Len(users) :
                   /\ users[i].email = email
                   /\ \A j \in 1..(i - 1) : users[j].email # email]

\* the outcome of a route of the accounts: the response, the documents of
\* db.users and the number of secrets drawn after it
Outcome(status, body, docs, drawn) ==
  [status |-> status, body |-> body, users |-> docs, issued |-> drawn]

\* data.get(key, ''), for a JSON object data
GetOrEmpty(data, key) == IF HasKey(data.val, key) THEN Get(data.val, key) ELSE Str(<<>>)

\* POST /forgot-password: forgot_password() for the JSON body data
forgot_password(data, db) ==
  IF Falsy(data)
    THEN Outcome(400, [success |-> FALSE, message |-> "No data provided"], users, issued)
  ELSE
    LET email == lower(strip(GetOrEmpty(data, "email").val, Whitespace))
        user == get_user_by_email(email, db)
        reset_token == token_urlsafe(issued + 1)
        token_hash == sha256(reset_token)
    IN  IF email = <<>>
          THEN Outcome(400, [success |-> FALSE, message |-> "Email is required"],
                       users, issued)
        ELSE IF ~validate_email(email)
          THEN Outcome(400, [success |-> FALSE, message |-> "Invalid email format"],
                       users, issued)
        ELSE IF ~user.found
          THEN Outcome(200,
                       [success |-> TRUE,
                        message |-> "If an account exists with this email, you will receive reset instructions"],
                       users, issued)
        ELSE IF db = "no_truth_value"
          THEN Outcome(500,
                       [success |-> FALSE,
                        message |-> "Failed to process password reset request",
                        error |-> "NotImplementedError"],
                       users, issued + 1)
        ELSE Outcome(200,
                     [success |-> TRUE,
                      message |-> "Password reset instructions sent to your email",
                      reset_token |-> reset_token],
                     [users EXCEPT ![user.at].reset_token = token_hash,
                                   ![user.at].reset_token_expires =
                                      [utc |-> utcnow.utc + timedelta(1)]],
                     issued + 1)


\* the documents find_one matches for {'reset_token': token_hash,
\* 'reset_token_expires': {'$gt': now}}
UnexpiredWithToken(token_hash) ==
  {i \in 1..Len(users) :
     /\ users[i].reset_token = token_hash
     /\ users[i].reset_token_expires # Absent
     /\ users[i].reset_token_expires.utc > utcnow.utc}

\* reset_password() with the update leaving reset_token in the document
reset_password_keeping_token(data, db) ==
  IF Falsy(data)
    THEN Outcome(400, [success |-> FALSE, message |-> "No data provided"], users, issued)
  ELSE
    LET reset_token == GetOrEmpty(data, "token")
        new_password == GetOrEmpty(data, "password")
        is_valid == validate_password(new_password.val)
        matching == UnexpiredWithToken(sha256(reset_token.val))
        user == CHOOSE i \in matching : \A j \in matching : i <= j
    IN  IF Falsy(reset_token) \/ Falsy(new_password)
          THEN Outcome(400, [success |-> FALSE,
                             message |-> "Token and new password are required"],
                       users, issued)
        ELSE IF ~is_valid.is_valid
          THEN Outcome(400, [success |-> FALSE, message |-> is_valid.message],
                       users, issued)
        ELSE IF db = "no_truth_value"
          THEN Outcome(500, [success |-> FALSE, message |-> "Password reset failed",
                             error |-> "NotImplementedError"], users, issued)
        ELSE IF db = "down"
          THEN Outcome(500, [success |-> FALSE, message |-> "Failed to reset password"],
                       users, issued)
        ELSE IF matching = {}
          THEN Outcome(400, [success |-> FALSE,
                             message |-> "Invalid or expired reset token"],
                       users, issued)
        ELSE Outcome(200, [success |-> TRUE, message |-> "Password reset successfully"],
                     [users EXCEPT ![user].password_hash =
                                      generate_password_hash(new_password.val)],
                     issued)

\* POST /reset-password: reset_password() for the JSON body data
reset_password(data, db) ==
  IF Falsy(data)
    THEN Outcome(400, [success |-> FALSE, message |-> "No data provided"], users, issued)
  ELSE
    LET reset_token == GetOrEmpty(data, "token")
        new_password == GetOrEmpty(data, "password")
        is_valid == validate_password(new_password.val)
        matching == UnexpiredWithToken(sha256(reset_token.val))
        user == CHOOSE i \in matching : \A j \in matching : i <= j
    IN  IF Falsy(reset_token) \/ Falsy(new_password)
          THEN Outcome(400, [success |-> FALSE,
                             message |-> "Token and new password are required"],
                       users, issued)
        ELSE IF ~is_valid.is_valid
          THEN Outcome(400, [success |-> FALSE, message |-> is_valid.message],
                       users, issued)
        ELSE IF db = "no_truth_value"
          THEN Outcome(500, [success |-> FALSE, message |-> "Password reset failed",
                             error |-> "NotImplementedError"], users, issued)
        ELSE IF db = "down"
          THEN Outcome(500, [success |-> FALSE, message |-> "Failed to reset password"],
                       users, issued)
        ELSE IF matching = {}
          THEN Outcome(400, [success |-> FALSE,
                             message |-> "Invalid or expired reset token"],
                       users, issued)
        ELSE Outcome(200, [success |-> TRUE, message |-> "Password reset successfully"],
                     [users EXCEPT ![user].password_hash =
                                      generate_password_hash(new_password.val),
                                   ![user].reset_token = Absent,
                                   ![user].reset_token_expires = Absent],
                     issued)


\* ---- the accounts served: forgot-password, reset-password, the clock ----
MaxClock == 3
MaxTokens == 2

\* JSON bodies of the forgot-password requests: an account's address as
\* typed, another account's, an address of no account, and no address
ForgotBodies ==
  {JsonNull, JsonObject(<<>>),
   JsonObject(<< <<"email", Str(<<" ","P","a","t","i","e","n","t","@","M","e","d","i","c","i","n","e",".","c","o","m"," ">>)>> >>),
   JsonObject(<< <<"email", Str(<<"a","d","m","i","n","@","m","e","d","i","c","i","n","e",".","c","o","m">>)>> >>),
   JsonObject(<< <<"email", Str(<<"n","o","b","o","d","y","@","m","e","d","i","c","i","n","e",".","c","o","m">>)>> >>),
   JsonObject(<< <<"email", Str(<<"n","o","t","-","a","n","-","e","m","a","i","l">>)>> >>)}

NewPassword == <<"n","e","w","p","a","s","s","1">>
WeakPassword == <<"s","h","o","r","t">>

\* JSON bodies of the reset-password requests: every secret drawn so far and
\* one that never was, with an acceptable and a weak new password
ResetBodies ==
  {JsonNull, JsonObject(<< <<"token", Str(token_urlsafe(0))>> >>)}
  \cup {JsonObject(<< <<"token", Str(token_urlsafe(n))>>, <<"password", Str(password)>> >>) :
          n \in 0..issued, password \in {NewPassword, WeakPassword}}

\* the state of the engine while the accounts are served
InitAccounts ==
  /\ serving = TRUE
  /\ predictor = Loaded
  /\ symptoms_dict = SymptomItems
  /\ diseases_list = DiseaseItems
  /\ supporting_data = CompleteTables
  /\ model = [features |-> 132, classes |-> 41, broken |-> FALSE]
  /\ call = NoCall
  /\ earlier = NoCall
  /\ exchange = NoExchange
  /\ frames = NoFrames
  /\ users = SeedUsers
  /\ clock = 0
  /\ issued = 0

\* POST /api/auth/forgot-password
ForgotPassword(data, db) ==
  LET outcome == forgot_password(data, db)
  IN  /\ exchange = NoExchange
      /\ issued < MaxTokens
      /\ exchange' = [endpoint |-> "/forgot-password", data |-> data, db |-> db,
                      status |-> outcome.status, body |-> outcome.body]
      /\ users' = outcome.users
      /\ issued' = outcome.issued
      /\ UNCHANGED <<engine, call, earlier, predictor, serving, frames, clock>>

\* POST /api/auth/reset-password
ResetPassword(data, db) ==
  LET outcome == reset_password(data, db)
  IN  /\ exchange = NoExchange
      /\ exchange' = [endpoint |-> "/reset-password", data |-> data, db |-> db,
                      status |-> outcome.status, body |-> outcome.body]
      /\ users' = outcome.users
      /\ issued' = outcome.issued
      /\ UNCHANGED <<engine, call, earlier, predictor, serving, frames, clock>>

\* half an hour passes
Tick ==
  /\ clock < MaxClock
  /\ clock' = clock + 1
  /\ UNCHANGED <<engine, call, earlier, predictor, serving, exchange, frames, users, issued>>

\* the response of a successful reset-password call is sent and the exchange
\* remembered, for the later calls to be compared with
SendResponseKept ==
  /\ exchange # NoExchange
  /\ exchange.endpoint = "/reset-password"
  /\ exchange.status = 200
  /\ earlier' = exchange
  /\ exchange' = NoExchange
  /\ UNCHANGED <<engine, call, predictor, serving, frames, accounts>>

NextReset ==
  \/ \E data \in ForgotBodies, db \in AccountDbStates : ForgotPassword(data, db)
  \/ \E data \in ResetBodies, db \in AccountDbStates : ResetPassword(data, db)
  \/ Tick
  \/ SendResponse
  \/ SendResponseKept

SpecReset == InitAccounts /\ [][NextReset]_vars

\* ---- accounts: the administrator's toggle-status (routes/admin.py) ----
\* str.upper()
upper(s) ==
  [i \in 1..Len(s) |->
     IF \E k \in 1..Len(LowerCase) : LowerCase[k] = s[i]
       THEN UpperCase[CHOOSE k \in 1..Len(LowerCase) : LowerCase[k] = s[i]]
       ELSE s[i]]

HexChars == DigitChars \cup {"a", "b", "c", "d", "e", "f", "A", "B", "C", "D", "E", "F"}

\* bson's ObjectId(oid) for a string: 24 hexadecimal digits of either case
\* are the 12 bytes they spell, anything else raises InvalidId; the value is
\* written here as str() prints it, in lower case
ObjectId(oid) ==
  IF Len(oid) = 24 /\ AllIn(oid, HexChars) THEN Ret(lower(oid)) ELSE Raise("InvalidId")

\* db.users.find_one({'_id': oid}): the place of the document
FindById(oid) ==
  IF \E i \in 1..Len(users) : users[i]._id = oid
    THEN [found |-> TRUE, at |-> CHOOSE i \in 1..Len(users) : users[i]._id = oid]
    ELSE [found |-> FALSE]

\* get_user_by_id(user_id); found is FALSE where the function returns None
get_user_by_id(user_id, db) ==
  IF db = "down" \/ ObjectId(user_id).raised
    THEN [found |-> FALSE]
    ELSE FindById(ObjectId(user_id).val)

\* check_admin_access(user_id): has_access and the error message
check_admin_access(user_id, db) ==
  LET user == get_user_by_id(user_id, db)
  IN  IF ~user.found
        THEN [has_access |-> FALSE, error_msg |-> "User not found"]
      ELSE IF users[user.at].role # "admin"
        THEN [has_access |-> FALSE,
              error_msg |-> "Access denied: Admin privileges required"]
      ELSE [has_access |-> TRUE, error_msg |-> None]

\* PUT /users/<user_id>/toggle-status: toggle_user_status(user_id) called
\* with the token of admin_user_id
toggle_user_status(admin_user_id, user_id, db) ==
  LET access == check_admin_access(admin_user_id, db)
      oid == ObjectId(user_id)
      user == FindById(oid.val)
      new_status == ~users[user.at].is_active
  IN  IF ~access.has_access
        THEN Outcome(403, [success |-> FALSE, message |-> access.error_msg], users, issued)
      ELSE IF user_id = admin_user_id
        THEN Outcome(400, [success |-> FALSE,
                           message |-> "Cannot modify your own account status"],
                     users, issued)
      ELSE IF db = "down"
        THEN Outcome(500, [success |-> FALSE, message |-> "Database connection failed"],
                     users, issued)
      ELSE IF oid.raised
        THEN Outcome(500, [success |-> FALSE,
                           message |-> "Failed to toggle user status: InvalidId"],
                     users, issued)
      ELSE IF ~user.found
        THEN Outcome(404, [success |-> FALSE, message |-> "User not found"], users, issued)
      ELSE Outcome(200,
                   [success |-> TRUE,
                    message |-> IF new_status THEN "User activated successfully"
                                              ELSE "User deactivated successfully",
                    is_active |-> new_status],
                   [users EXCEPT ![user.at].is_active = new_status], issued)

\* the identities of the tokens: the three accounts, an account deleted
\* since its token was made, and the demo identity
UnknownId == Hex(IdPrefix, "d")
DemoIdentity == <<"d", "e", "m", "o">>
Callers == {AdminId, DoctorId, PatientId, UnknownId, DemoIdentity}

\* the <user_id> of the URL: the ids as the user listing shows them, the
\* administrator's in capitals, one of no account, and no id at all
Targets == {AdminId, upper(AdminId), DoctorId, PatientId, UnknownId, DemoIdentity}

\* PUT /api/admin/users/<user_id>/toggle-status
ToggleStatus(admin_user_id, user_id, db) ==
  LET outcome == toggle_user_status(admin_user_id, user_id, db)
  IN  /\ exchange = NoExchange
      /\ exchange' = [endpoint |-> "/toggle-status", identity |-> admin_user_id,
                      user_id |-> user_id, db |-> db,
                      status |-> outcome.status, body |-> outcome.body]
      /\ users' = outcome.users
      /\ UNCHANGED <<engine, call, earlier, predictor, serving, frames, clock, issued>>

NextAdmin ==
  \/ \E admin_user_id \in Callers, user_id \in Targets, db \in {"up", "down"} :
       ToggleStatus(admin_user_id, user_id, db)
  \/ SendResponse

SpecAdmin == InitAccounts /\ [][NextAdmin]_vars

-----------------------------------------------------------------------------
(* Properties of predict (get_prediction_with_details).                    *)

IsPredict == call.op = "predict"

\* the call being served is a prediction for a list of strings
IsPredictOfStrings ==
  IsPredict /\ \A i \in 1..Len(call.symptoms) : IsStr(call.symptoms[i])

\* the normalized tokens of the request
NormalizedTokens == clean_symptoms(call.symptoms)

\* a token is a name of the vocabulary
IsVocabularyName(token) ==
  \E i \in 1..Len(symptoms_dict) : symptoms_dict[i][1] = token

Field(ret, name) == IF name \in DOMAIN ret THEN ret[name] ELSE <<>>

\* tokens is partitioned into valid and invalid, in order: its vocabulary names
\* are valid, one after the other, and its other tokens are invalid
RECURSIVE Partitioned(_, _, _)
Partitioned(tokens, valid, invalid) ==
  IF tokens = <<>> THEN valid = <<>> /\ invalid = <<>>
  ELSE IF IsVocabularyName(Head(tokens))
    THEN /\ valid # <<>>
         /\ Head(valid) = Head(tokens)
         /\ Partitioned(Tail(tokens), Tail(valid), invalid)
    ELSE /\ invalid # <<>>
         /\ Head(invalid) = Head(tokens)
         /\ Partitioned(Tail(tokens), valid, Tail(invalid))

\* C1: predict never lets an exception escape: every call, also one whose
\* classifier call, catalog lookup or reference lookup fails, returns a result
\* with a boolean success field.
C1_PredictAlwaysReturnsResult ==
  IsPredict =>
    /\ "success" \in DOMAIN call.ret
    /\ call.ret.success \in BOOLEAN

\* a prediction whose classifier call raised
C1_ClassifierFailed ==
  /\ IsPredict
  /\ model.broken
  /\ call.model_inputs # <<>>
  /\ call.labels = <<>>
  /\ "success" \in DOMAIN call.ret
  /\ ~call.ret.success

\* C2: when no normalized token of a list of strings is a vocabulary name,
\* predict returns success = false with the error 'No valid symptoms provided'
\* and all the normalized tokens, in order, as invalid_symptoms, and the
\* classifier is not called.
C2_NoValidSymptoms ==
  (/\ IsPredictOfStrings
   /\ \A i \in 1..Len(NormalizedTokens) : ~IsVocabularyName(NormalizedTokens[i]))
  => /\ call.ret.success = FALSE
     /\ call.ret.error = "No valid symptoms provided"
     /\ "invalid_symptoms" \in DOMAIN call.ret
     /\ call.ret.invalid_symptoms = NormalizedTokens
     /\ call.model_inputs = <<>>
     /\ call.labels = <<>>

\* a prediction for two tokens that normalize to the same invalid token
C2_AllInvalid ==
  /\ IsPredictOfStrings
  /\ Len(call.symptoms) = 2
  /\ NormalizedTokens = <<fever, fever>>
  /\ call.ret.error = "No valid symptoms provided"
  /\ call.model_inputs = <<>>

\* C3: validation partitions the normalized tokens: a token is valid iff it is
\* equal, case included, to a vocabulary name; every token is in exactly one of
\* the two lists, in its original order, and the lengths add up.
C3_ValidationPartitions ==
  (IsPredictOfStrings /\ "invalid_symptoms" \in DOMAIN call.ret)
  => /\ Partitioned(NormalizedTokens, Field(call.ret, "symptoms_detected"),
                    call.ret.invalid_symptoms)
     /\ Len(Field(call.ret, "symptoms_detected")) + Len(call.ret.invalid_symptoms)
          = Len(NormalizedTokens)

\* a prediction that detects a name and rejects the same name in capitals
C3_MixedCase ==
  /\ IsPredictOfStrings
  /\ call.ret.success
  /\ call.ret.symptoms_detected = <<cough>>
  /\ call.ret.invalid_symptoms = <<(<<"C">> \o Tail(cough))>>

\* C4: every token that is empty after normalization is discarded: neither
\* symptoms_detected nor invalid_symptoms ever contains the empty string.
C4_NoEmptyToken ==
  IsPredictOfStrings =>
    LET listed == Field(call.ret, "symptoms_detected") \o Field(call.ret, "invalid_symptoms")
    IN  \A i \in 1..Len(listed) : listed[i] # <<>>

TrimmedCharacters == Whitespace \cup {"[", "]", "'"}

\* C5: the token that is validated has no leading or trailing whitespace
\* character and no leading or trailing [ ] or ' character, so that a
\* vocabulary name wrapped in whitespace and those characters is detected as
\* that name.
C5_TokensTrimmed ==
  IsPredictOfStrings =>
    LET listed == Field(call.ret, "symptoms_detected") \o Field(call.ret, "invalid_symptoms")
        detected == Field(call.ret, "symptoms_detected")
    IN  /\ \A i \in 1..Len(listed) :
             listed[i] # <<>> =>
               /\ Head(listed[i]) \notin TrimmedCharacters
               /\ listed[i][Len(listed[i])] \notin TrimmedCharacters
        /\ \A i \in 1..Len(call.symptoms) :
             LET name == strip(call.symptoms[i].val, TrimmedCharacters)
             IN  (IsVocabularyName(name) /\ "invalid_symptoms" \in DOMAIN call.ret)
                   => \E k \in 1..Len(detected) : detected[k] = name

\* C6: a vector handed to the classifier has exactly N entries, N the size of
\* the vocabulary, each 0 or 1, and entry i is 1 iff a valid symptom of the
\* request has index i.
C6_FeatureVector ==
  IsPredict =>
    \A k \in 1..Len(call.model_inputs) :
      LET vector == call.model_inputs[k]
      IN  /\ DOMAIN vector = 0..(Len(symptoms_dict) - 1)
          /\ \A i \in DOMAIN vector :
               /\ vector[i] \in {0, 1}
               /\ vector[i] = 1 <=>
                    \E j \in 1..Len(NormalizedTokens) :
                      /\ IsVocabularyName(NormalizedTokens[j])
                      /\ Get(symptoms_dict, NormalizedTokens[j]) = i

\* a prediction that classified a vector with two positions set
C6_TwoPositionsSet ==
  /\ IsPredict
  /\ Len(call.model_inputs) = 1
  /\ Cardinality({i \in DOMAIN call.model_inputs[1] : call.model_inputs[1][i] = 1}) = 2

\* the list with its elements in the order p
Permuted(list, p) == [i \in 1..Len(list) |-> list[p[i]]]

\* C7: for every permutation of the list, predict gives the same success flag,
\* the same predicted_disease and the same confidence.
C7_OrderIndependent ==
  IsPredict =>
    \A p \in Permutations(1..Len(call.symptoms)) :
      LET other == get_prediction_with_details(Permuted(call.symptoms, p)).ret
      IN  /\ other.success = call.ret.success
          /\ call.ret.success =>
               /\ other.predicted_disease = call.ret.predicted_disease
               /\ other.confidence = call.ret.confidence

\* a successful prediction for two different valid symptoms
C7_TwoValidSymptoms ==
  /\ IsPredict
  /\ call.ret.success
  /\ call.ret.symptoms_detected = <<headache, cough>>

\* C8: a prediction request returns what the same request returned earlier,
\* whatever calls were made before and between the two.
C8_Idempotent ==
  (IsPredict /\ earlier # NoCall /\ earlier.symptoms = call.symptoms)
  => call.ret = earlier.ret

\* a successful prediction for a request that was answered before
C8_RepeatedRequest ==
  /\ IsPredict
  /\ earlier # NoCall
  /\ earlier.symptoms = call.symptoms
  /\ call.ret.success
  /\ earlier.ret.success

\* C9: a successful prediction has success = true, the catalog name of the
\* classifier's label, confidence 1.0, the valid tokens as symptoms_detected,
\* the invalid tokens as invalid_symptoms and the number of valid tokens as
\* total_symptoms; a list with a valid token is never answered 'no valid
\* symptoms'.
C9_ResultAssembly ==
  /\ (IsPredict /\ call.ret.success) =>
       /\ Len(call.labels) = 1
       /\ HasKey(diseases_list, call.labels[1])
       /\ call.ret.predicted_disease = Get(diseases_list, call.labels[1])
       /\ call.ret.confidence = "1.0"
       /\ Partitioned(NormalizedTokens, call.ret.symptoms_detected,
                      call.ret.invalid_symptoms)
       /\ call.ret.total_symptoms = Len(call.ret.symptoms_detected)
  /\ (/\ IsPredictOfStrings
      /\ \E i \in 1..Len(NormalizedTokens) : IsVocabularyName(NormalizedTokens[i]))
     => \/ call.ret.success
        \/ call.ret.message = "Error in prediction process"

\* a successful prediction for a list with a valid and an invalid token
C9_MixedInput ==
  /\ IsPredict
  /\ call.ret.success
  /\ call.ret.symptoms_detected = <<headache>>
  /\ call.ret.invalid_symptoms = <<fever>>
  /\ call.ret.total_symptoms = 1

\* C10: the result has a predicted_disease field iff success is true.
C10_DiseaseIffSuccess ==
  IsPredict =>
    ("predicted_disease" \in DOMAIN call.ret <=> call.ret.success)

\* a prediction whose label is not in the catalog: no disease, no success
C10_CatalogMiss ==
  /\ IsPredict
  /\ call.labels # <<>>
  /\ ~HasKey(diseases_list, call.labels[1])
  /\ ~call.ret.success
  /\ "predicted_disease" \notin DOMAIN call.ret

-----------------------------------------------------------------------------
(* Properties of the enrichment (get_disease_info).                        *)

InfoFields == {"description", "precautions", "medications", "diet", "workout"}

\* the display names of the catalog, and a name no table has a row for
DiseaseNames ==
  {diseases_list[i][2] : i \in 1..Len(diseases_list)} \cup {"Unknown disease"}

\* the reference tables have the columns get_disease_info selects
TablesHaveColumns == MissingColumns = {}

\* the table of a kind has no row for the disease
NoRow(kind, disease) ==
  LET key == IF kind = "workout" THEN "disease" ELSE "Disease"
  IN  \A i \in 1..Len(supporting_data[kind].rows) :
        LET cell == supporting_data[kind].rows[i][key]
        IN  cell.nan \/ cell.s # disease

\* a text of the result: a string, never None
IsText(v) == v \in STRING

\* info has the five fields, none of them None: description a text, the other
\* four lists of texts
WellFormedInfo(info) ==
  /\ DOMAIN info = InfoFields
  /\ IsText(info.description)
  /\ \A f \in InfoFields \ {"description"} :
       /\ DOMAIN info[f] = 1..Len(info[f])
       /\ \A i \in 1..Len(info[f]) : IsText(info[f][i])

\* info has the empty default of every kind whose table has no row, and
\* something else than the placeholder for a description that has a row
DefaultsWhereNoRow(info, disease) ==
  /\ NoRow("description", disease) <=> info.description = "No description available"
  /\ NoRow("precautions", disease) => info.precautions = <<>>
  /\ NoRow("medications", disease) <=> info.medications = <<>>
  /\ NoRow("diets", disease) <=> info.diet = <<>>
  /\ NoRow("workout", disease) <=> info.workout = <<>>

\* C11: with reference tables that have their columns, get_disease_info
\* returns, for every disease name, the five fields, none null: a kind whose
\* table has no row for the disease gets its default (the placeholder text or
\* an empty list) without raising and without effect on the other kinds, and
\* the prediction of a disease with missing rows stays a success.
C11_BestEffortEnrichment ==
  TablesHaveColumns =>
    /\ \A disease \in DiseaseNames :
         LET info == get_disease_info(disease)
         IN  /\ ~info.raised
             /\ WellFormedInfo(info.val)
             /\ DefaultsWhereNoRow(info.val, disease)
    /\ (/\ IsPredict
        /\ call.labels # <<>>
        /\ HasKey(diseases_list, call.labels[1]))
       => /\ call.ret.success
          /\ \A f \in InfoFields :
               call.ret[f] = get_disease_info(call.ret.predicted_disease).val[f]

\* a successful prediction of a disease that has precautions but neither a
\* description nor medications, diets or workouts
C11_SomeKindsMissing ==
  /\ IsPredict
  /\ call.ret.success
  /\ call.ret.description = "No description available"
  /\ call.ret.precautions # <<>>
  /\ call.ret.medications = <<>>
  /\ call.ret.diet = <<>>
  /\ call.ret.workout = <<>>

\* a text that str(item).strip() leaves something of
NotBlank(text) == IsText(text) /\ ~IsBlank(text)

\* C12: for every disease predicted and every content of the precautions
\* table, the precautions of the result are at most 4 texts, none of them
\* blank or null.
C12_AtMostFourPrecautions ==
  (IsPredict /\ call.ret.success) =>
    /\ Len(call.ret.precautions) <= Len(PrecautionFields)
    /\ \A i \in 1..Len(call.ret.precautions) : NotBlank(call.ret.precautions[i])

-----------------------------------------------------------------------------
(* Internal errors of predict.                                             *)

\* the classifier was called and either raised or returned a label that has
\* no entry in the catalog
ClassificationFailed ==
  /\ IsPredict
  /\ call.model_inputs # <<>>
  /\ \/ call.labels = <<>>
     \/ ~HasKey(diseases_list, call.labels[1])

\* the result of a request without a valid symptom
IsNoValidSymptomsResult(ret) ==
  /\ ~ret.success
  /\ ret.error = "No valid symptoms provided"
  /\ "invalid_symptoms" \in DOMAIN ret

\* the result of the except clause
IsInternalErrorResult(ret) ==
  /\ ~ret.success
  /\ ret.message = "Error in prediction process"
  /\ ret.error # "No valid symptoms provided"
  /\ "invalid_symptoms" \notin DOMAIN ret

\* C13: when the classifier call fails or its label has no entry in the
\* catalog, predict returns success = false with the internal-error result,
\* which no request without a valid symptom gets, and the result carries no
\* predicted disease.
C13_InternalErrorDistinct ==
  /\ ClassificationFailed =>
       /\ IsInternalErrorResult(call.ret)
       /\ ~IsNoValidSymptomsResult(call.ret)
       /\ "predicted_disease" \notin DOMAIN call.ret
  /\ (IsPredict /\ IsNoValidSymptomsResult(call.ret)) =>
       /\ call.model_inputs = <<>>
       /\ ~IsInternalErrorResult(call.ret)

\* a prediction with a classifier of 64 classes whose label is beyond the
\* catalog: the lookup raised KeyError and the except clause answered
C13_LabelBeyondCatalog ==
  /\ IsPredict
  /\ ~model.broken
  /\ model.classes > Len(diseases_list)
  /\ call.labels # <<>>
  /\ \A i \in 1..Len(diseases_list) : diseases_list[i][1] # call.labels[1]
  /\ call.ret.error = "KeyError"
  /\ call.ret.message = "Error in prediction process"

-----------------------------------------------------------------------------
(* Properties of the prediction routes.                                    *)

IsPredictionRequest == exchange.endpoint \in {"/predict", "/predict-authenticated"}

\* the request being answered is a prediction request that the route hands to
\* the predictor: the predictor is loaded, the token (where required) names a
\* user, and the body is an object whose "symptoms" is a list with an element
EngineReached ==
  /\ IsPredictionRequest
  /\ predictor = Loaded
  /\ exchange.endpoint = "/predict-authenticated" => exchange.identity # NoIdentity
  /\ exchange.data.type = "object"
  /\ HasKey(exchange.data.val, "symptoms")
  /\ Get(exchange.data.val, "symptoms").type = "list"
  /\ Get(exchange.data.val, "symptoms").val # <<>>

\* the symptom list of the request, as sent
RequestSymptoms == Get(exchange.data.val, "symptoms").val

\* what the engine answers to the request
EngineRun == get_prediction_with_details(RequestSymptoms)

\* the engine reported an internal error: the classifier was called and the
\* result is a failure
IsInternalError(run) == ~run.ret.success /\ run.model_inputs # <<>>

\* C14: on /predict and /predict-authenticated the status is 200 when the
\* prediction succeeded, 400 when the input had no valid symptom, and 500 when
\* the engine reported an internal error (classifier failure or catalog miss).
C14_StatusOfEngineResult ==
  EngineReached =>
    LET run == EngineRun
    IN  /\ run.ret.success => exchange.status = 200
        /\ IsNoValidSymptomsResult(run.ret) => exchange.status = 400
        /\ IsInternalError(run) => exchange.status = 500

-----------------------------------------------------------------------------
(* Properties of the audit log (db.prediction_logs).                       *)

\* C15: a prediction request hands at most one document to the prediction
\* log, and none when its result is a failure or when the route does not
\* reach the engine; every document has success = true, the disease of the
\* response, the caller's user id ('anonymous' on /predict, the identity of
\* the token on /predict-authenticated) and the symptom list as it was sent.
C15_AuditOnlySuccess ==
  IsPredictionRequest =>
    /\ Len(exchange.inserted) <= 1
    /\ (~EngineReached \/ ~EngineRun.ret.success) => exchange.inserted = <<>>
    /\ \A i \in 1..Len(exchange.inserted) :
         LET entry == exchange.inserted[i]
         IN  /\ entry.success = TRUE
             /\ entry.predicted_disease \in STRING
             /\ entry.predicted_disease # None
             /\ entry.predicted_disease = exchange.body.predicted_disease
             /\ entry.user_id = IF exchange.endpoint = "/predict"
                                  THEN "anonymous" ELSE exchange.identity
             /\ entry.user_id # NoIdentity
             /\ entry.symptoms = RequestSymptoms

\* an authenticated request with a valid and an invalid symptom whose
\* prediction succeeded and was logged for the user
C15_LoggedForUser ==
  /\ exchange.endpoint = "/predict-authenticated"
  /\ exchange.status = 200
  /\ Len(exchange.inserted) = 1
  /\ exchange.inserted[1].user_id = "user-1"
  /\ exchange.inserted[1].symptoms = <<Str(headache), Str(fever)>>
  /\ exchange.body.invalid_symptoms = <<fever>>

\* the response to the request being answered if the audit write succeeds
ResponseWithAudit ==
  IF exchange.endpoint = "/predict"
    THEN predict_medicine(exchange.data, "up")
    ELSE predict_medicine_authenticated(exchange.identity, exchange.data, "up")

\* a body without its prediction_id
WithoutPredictionId(body) == [k \in DOMAIN body \ {"prediction_id"} |-> body[k]]

\* C16: whatever the state of the database (unavailable, insert raising,
\* import of the audit function raising), the response to a prediction
\* request has the status and the fields it has when the audit write
\* succeeds; only prediction_id, on the authenticated route, may be absent.
C16_AuditFailureHarmless ==
  IsPredictionRequest =>
    LET expected == ResponseWithAudit
    IN  /\ exchange.status = expected.status
        /\ WithoutPredictionId(exchange.body) = WithoutPredictionId(expected.body)
        /\ exchange.endpoint = "/predict" => exchange.body = expected.body
        /\ "prediction_id" \in DOMAIN exchange.body =>
             exchange.body = expected.body

\* a successful authenticated prediction whose audit write failed: the
\* response is a 200 without prediction_id, and nothing was logged
C16_WriteFailed ==
  /\ exchange.endpoint = "/predict-authenticated"
  /\ exchange.db \in {"down", "insert_fails", "import_fails"}
  /\ exchange.status = 200
  /\ exchange.body.success
  /\ "prediction_id" \notin DOMAIN exchange.body
  /\ "prediction_id" \in DOMAIN ResponseWithAudit.body
  /\ exchange.inserted = <<>>

-----------------------------------------------------------------------------
(* Properties of startup.                                                  *)

\* C17: no request is answered by a service whose predictor failed to load:
\* when loading the classifier or a reference file fails at startup, the
\* process does not serve.
C17_NoServiceWithoutPredictor ==
  exchange # NoExchange => predictor = Loaded

-----------------------------------------------------------------------------
(* Properties of predict for malformed tokens.                             *)

\* the call being served is a prediction for a list with an element that is
\* not a string
HasNonStringToken ==
  IsPredict /\ \E i \in 1..Len(call.symptoms) : ~IsStr(call.symptoms[i])

\* C18: for a list with an element that is not a string, predict returns,
\* without raising, success = false with the invalid entries listed in
\* invalid_symptoms.
C18_NonStringEnumerated ==
  HasNonStringToken =>
    /\ "success" \in DOMAIN call.ret
    /\ ~call.ret.success
    /\ "invalid_symptoms" \in DOMAIN call.ret
    /\ call.ret.invalid_symptoms # <<>>

-----------------------------------------------------------------------------
(* Properties of the listings (search_symptoms, get_all_diseases).         *)

\* two characters that differ at most in letter case
SameLetter(c, d) ==
  \/ c = d
  \/ \E k \in 1..Len(UpperCase) :
       {c, d} = {UpperCase[k], LowerCase[k]}

\* name contains query, letter case ignored
ContainsIgnoringCase(name, query) ==
  \E offset \in 0..(Len(name) - Len(query)) :
    \A k \in 1..Len(query) : SameLetter(name[offset + k], query[k])

\* the vocabulary names that contain query, in the order of the vocabulary
FullMatchList(query) ==
  SelectSeq([i \in 1..Len(symptoms_dict) |-> symptoms_dict[i][1]],
            LAMBDA name : ContainsIgnoringCase(name, query))

IsSearch == call.op = "search"

\* C19: search returns the vocabulary names that contain the query, letter
\* case ignored, in vocabulary order, truncated to limit: for every integer
\* limit the result has at most limit elements and is a prefix of the full
\* match list (the whole list when limit allows), and it is empty when nothing
\* matches.
C19_SearchTruncated ==
  IsSearch =>
    LET matches == FullMatchList(call.query)
    IN  /\ Len(call.ret) <= call.limit
        /\ Len(call.ret) <= Len(matches)
        /\ call.ret = SubSeq(matches, 1, Len(call.ret))
        /\ call.limit >= Len(matches) => call.ret = matches
        /\ matches = <<>> => call.ret = <<>>

IsAllDiseases == call.op = "all_diseases"

-----------------------------------------------------------------------------
(* Properties of the vocabulary (symptoms_dict).                           *)

VocabularyNames == {symptoms_dict[i][1] : i \in 1..Len(symptoms_dict)}
VocabularyIndices == {symptoms_dict[i][2] : i \in 1..Len(symptoms_dict)}

\* the positions of a feature vector that are set to 1
PositionsSet(vector) == {i \in DOMAIN vector : vector[i] = 1}

\* C21: the vocabulary is a bijection between its N names and the indices
\* 0..N-1, so get_all_symptoms lists exactly N names and a prediction sets
\* one position of the feature vector for each distinct valid symptom.
C21_VocabularyBijection ==
  LET N == Len(symptoms_dict)
  IN  /\ Cardinality(VocabularyNames) = N
      /\ VocabularyIndices = 0..(N - 1)
      /\ call.op = "all_symptoms" =>
           /\ Len(call.ret) = N
           /\ {call.ret[i] : i \in 1..N} = VocabularyNames
      /\ (IsPredict /\ call.model_inputs # <<>>) =>
           Cardinality(PositionsSet(call.model_inputs[1])) =
             Cardinality({NormalizedTokens[j] : j \in 1..Len(NormalizedTokens)}
                           \cap VocabularyNames)

\* the listing of the vocabulary: as many names as the feature vector has
\* positions
C21_AllNamesListed ==
  /\ call.op = "all_symptoms"
  /\ Len(call.ret) = model.features
  /\ call.ret[1] # call.ret[Len(call.ret)]

-----------------------------------------------------------------------------
(* Properties of concurrent calls on the predictor.                        *)

\* what the call of a frame returns when it runs alone
AloneResult(frame) ==
  CASE frame.op = "predict" -> get_prediction_with_details(frame.symptoms).ret
    [] frame.op = "search" -> search_symptoms(frame.query, frame.limit)
    [] frame.op = "all_symptoms" -> get_all_symptoms
    [] frame.op = "all_diseases" -> get_all_diseases

\* the call of worker w is over
IsDone(w) == frames[w] # NoCall /\ frames[w].pc = "done"

\* every finished call has the result of the call run alone, and a feature
\* vector built by a call is the vector of that call's own valid symptoms
ResultsAsAlone ==
  \A w \in Workers :
    /\ IsDone(w) => frames[w].ret = AloneResult(frames[w])
    /\ (frames[w] # NoCall /\ "input_vector" \in DOMAIN frames[w]) =>
         frames[w].input_vector =
           feature_vector(validate(clean_symptoms(frames[w].symptoms)).valid_symptoms)

\* C22: under any interleaving of concurrent predict, search, get_all_symptoms
\* and get_all_diseases calls, no step modifies the vocabulary, the catalog,
\* the reference tables or the model, each call works on its own feature
\* vector and result, and each call returns the result it returns when run
\* alone.
C22_ConcurrentCallsIndependent ==
  /\ []ResultsAsAlone
  /\ [][UNCHANGED engine]_vars

\* a prediction that has finished with a success on one worker while the
\* prediction of the other worker, for other symptoms, is between its
\* classification and its catalog lookup
C22_Interleaved ==
  \E w, v \in Workers :
    /\ w # v
    /\ IsDone(w)
    /\ frames[w].op = "predict"
    /\ frames[w].ret.success
    /\ At(v, "predict", "lookup")
    /\ frames[v].symptoms # frames[w].symptoms
    /\ frames[v].input_vector # frames[w].input_vector

-----------------------------------------------------------------------------
(* Properties of the other routes of routes/ml.py.                         *)

IsSearchRequest == exchange.endpoint = "/symptoms/search"

\* C23: for every limit parameter that parses as an integer, the search
\* route returns at most 50 symptoms, and at most limit symptoms when
\* 0 <= limit <= 50.
C23_SearchAtMostFifty ==
  (/\ IsSearchRequest
   /\ exchange.limit.kind = "int"
   /\ "symptoms" \in DOMAIN exchange.body)
  => /\ Len(exchange.body.symptoms) <= 50
     /\ (0 <= exchange.limit.val /\ exchange.limit.val <= 50) =>
          Len(exchange.body.symptoms) <= exchange.limit.val

\* the request being answered is a prediction request of a user (where the
\* route wants one) to a loaded predictor, with a JSON body whose "symptoms"
\* is missing, empty or not a list
SymptomsUnusable ==
  /\ IsPredictionRequest
  /\ predictor = Loaded
  /\ exchange.endpoint = "/predict-authenticated" => exchange.identity # NoIdentity
  /\ \/ exchange.data.type # "object"
     \/ ~HasKey(exchange.data.val, "symptoms")
     \/ Get(exchange.data.val, "symptoms").type # "list"
     \/ Get(exchange.data.val, "symptoms").val = <<>>

\* C24: on /predict and /predict-authenticated a JSON request whose
\* "symptoms" is missing, empty or not a list is answered 400, without a
\* call on the predictor and without an audit entry.
C24_UnusableSymptomsRejected ==
  SymptomsUnusable =>
    /\ exchange.status = 400
    /\ exchange.inserted = <<>>
    /\ "predicted_disease" \notin DOMAIN exchange.body
    /\ "invalid_symptoms" \notin DOMAIN exchange.body


IsValidation == exchange.endpoint = "/validate-symptoms" /\ exchange.status = 200

ValidatedTokens ==
  IF HasKey(exchange.data.val, "symptoms") THEN Get(exchange.data.val, "symptoms").val
                                           ELSE <<>>

\* what predict reports as detected for the list the validation was asked about
DetectedByPredict ==
  LET ret == get_prediction_with_details(ValidatedTokens).ret
  IN  IF ret.success THEN ret.symptoms_detected ELSE <<>>

InSeq(x, s) == \E i \in 1..Len(s) : s[i] = x

\* C25: for a list of string tokens, /validate-symptoms reports a token in
\* valid_symptoms exactly when predict on the same list has the token's
\* normalized form in symptoms_detected (the classifier permitting)
C25_ValidationAgreesWithPredict ==
  (IsValidation /\ ~IsInternalErrorResult(get_prediction_with_details(ValidatedTokens).ret)) =>
    \A i \in 1..Len(ValidatedTokens) :
      LET token == ValidatedTokens[i].val
      IN  InSeq(strip(token, Whitespace), exchange.body.valid_symptoms)
            <=> InSeq(strip(strip(token, Whitespace), ListArtifacts), DetectedByPredict)

\* the two agree on the lists whose tokens carry no list artifacts
C25_AgreeOnBareTokens ==
  (IsValidation /\ ~IsInternalErrorResult(get_prediction_with_details(ValidatedTokens).ret)
     /\ \A i \in 1..Len(ValidatedTokens) :
          LET stripped == strip(ValidatedTokens[i].val, Whitespace)
          IN  strip(stripped, ListArtifacts) = stripped) =>
    \A i \in 1..Len(ValidatedTokens) :
      LET token == ValidatedTokens[i].val
      IN  InSeq(strip(token, Whitespace), exchange.body.valid_symptoms)
            <=> InSeq(strip(strip(token, Whitespace), ListArtifacts), DetectedByPredict)


IsSuccessfulPredict == IsPredict /\ call.ret.success /\ Len(call.model_inputs) = 1

Distinct(s) == \A i, j \in 1..Len(s) : s[i] = s[j] => i = j

\* C26 as stated: on every successful prediction total_symptoms is the
\* number of positions set to 1 in the classified vector
C26_TotalIsPositionsSet ==
  IsSuccessfulPredict =>
    call.ret.total_symptoms = Cardinality(PositionsSet(call.model_inputs[1]))

\* C26: on every successful prediction total_symptoms is the number of valid
\* tokens, symptoms_detected's length; it is never less than the number of
\* positions set in the classified vector and equals it exactly when no
\* valid symptom is repeated
C26_TotalIsValidTokens ==
  IsSuccessfulPredict =>
    /\ call.ret.total_symptoms = Len(call.ret.symptoms_detected)
    /\ call.ret.total_symptoms >= Cardinality(PositionsSet(call.model_inputs[1]))
    /\ Distinct(call.ret.symptoms_detected) <=>
         call.ret.total_symptoms = Cardinality(PositionsSet(call.model_inputs[1]))

\* a successful prediction for a list that repeats a valid symptom: two
\* valid tokens, one position set
C26_RepeatedValidSymptom ==
  /\ IsSuccessfulPredict
  /\ call.ret.total_symptoms = 2
  /\ Cardinality(PositionsSet(call.model_inputs[1])) = 1


\* the request is a single name of the vocabulary
IsPredictOfName ==
  /\ IsPredict
  /\ Len(call.symptoms) = 1
  /\ IsStr(call.symptoms[1])
  /\ IsVocabularyName(call.symptoms[1].val)

\* C27: every name of the vocabulary survives input normalization: predict
\* of the name alone validates that exact name, classifies the vector with
\* the name's position set, and on success reports symptoms_detected = [name]
\* and no invalid symptom
C27_NamesAreFixedPoints ==
  IsPredictOfName =>
    LET name == call.symptoms[1].val
    IN  /\ clean_symptoms(call.symptoms) = <<name>>
        /\ ~IsNoValidSymptomsResult(call.ret)
        /\ Len(call.model_inputs) >= 1
        /\ PositionsSet(call.model_inputs[1]) = {Get(symptoms_dict, name)}
        /\ call.ret.success =>
             /\ call.ret.symptoms_detected = <<name>>
             /\ call.ret.invalid_symptoms = <<>>

\* the name with brackets at its end was asked for and detected
C27_BracketedNameDetected ==
  /\ IsPredictOfName
  /\ call.symptoms[1].val[Len(call.symptoms[1].val)] = ")"
  /\ call.ret.success
  /\ call.ret.symptoms_detected = <<call.symptoms[1].val>>


IsForgot == exchange.endpoint = "/forgot-password"

\* the address the forgot-password request was made for, as the route reads it
RequestedEmail == lower(strip(GetOrEmpty(exchange.data, "email").val, Whitespace))

IsRegistered(email) == \E i \in 1..Len(users) : users[i].email = email

\* the request was made for a well-formed address of an account
ForgotForAccount ==
  /\ IsForgot
  /\ ~Falsy(exchange.data)
  /\ validate_email(RequestedEmail)
  /\ IsRegistered(RequestedEmail)

\* the well-formed addresses of no account among the requests
UnregisteredBodies ==
  {data \in ForgotBodies :
     /\ ~Falsy(data)
     /\ validate_email(lower(strip(GetOrEmpty(data, "email").val, Whitespace)))
     /\ ~IsRegistered(lower(strip(GetOrEmpty(data, "email").val, Whitespace)))}

\* C28: the answer of /forgot-password to a well-formed address of an
\* account has the status code and the body shape of the answer the same
\* server gives to a well-formed address of no account
C28_AccountExistenceHidden ==
  ForgotForAccount =>
    \A data \in UnregisteredBodies :
      LET other == forgot_password(data, exchange.db)
      IN  /\ exchange.status = other.status
          /\ DOMAIN exchange.body = DOMAIN other.body


IsReset == exchange.endpoint = "/reset-password"

\* the request is a reset-password call carrying the token
IsResetWith(token) ==
  /\ IsReset
  /\ ~Falsy(exchange.data)
  /\ GetOrEmpty(exchange.data, "token").val = token

\* a token was redeemed earlier, and the request carries it again
RedeemedTokenAgain ==
  /\ earlier # NoCall
  /\ IsResetWith(GetOrEmpty(earlier.data, "token").val)

\* the call carries an acceptable new password and the database answers
ReachesLookup ==
  /\ validate_password(GetOrEmpty(exchange.data, "password").val).is_valid
  /\ exchange.db = "up"

SaysInvalidToken ==
  /\ exchange.status = 400
  /\ exchange.body.message = "Invalid or expired reset token"

\* a step changes a password only by redeeming the token stored, unexpired,
\* in the document of the one user whose password changes, a token
\* /forgot-password had drawn
PasswordChangeJustified ==
  \A i \in 1..Len(users) :
    users'[i].password_hash # users[i].password_hash =>
      /\ exchange'.endpoint = "/reset-password"
      /\ exchange'.status = 200
      /\ users[i].reset_token = sha256(GetOrEmpty(exchange'.data, "token").val)
      /\ users[i].reset_token_expires # Absent
      /\ users[i].reset_token_expires.utc > clock
      /\ \E n \in 1..issued : GetOrEmpty(exchange'.data, "token").val = token_urlsafe(n)
      /\ \A j \in 1..Len(users) :
           j # i => users'[j].password_hash = users[j].password_hash

\* C29 as stated: once a token is redeemed, every later /reset-password call
\* with it is answered 'Invalid or expired reset token'
C29_LaterCallsSayInvalidToken == RedeemedTokenAgain => SaysInvalidToken

\* C29: a reset token is single-use and bound to its user: once it is
\* redeemed every later /reset-password call with it fails, with 'Invalid or
\* expired reset token' whenever the call carries an acceptable password and
\* the database answers; and no step changes a password except by redeeming
\* the unexpired token stored for that user by /forgot-password
C29_TokenSingleUse ==
  /\ [](RedeemedTokenAgain =>
          /\ exchange.status # 200
          /\ ReachesLookup => SaysInvalidToken)
  /\ [][PasswordChangeJustified]_vars

\* a redeemed token, the only one drawn, is refused as invalid
C29_RedeemedTokenRefused ==
  /\ issued = 1
  /\ RedeemedTokenAgain
  /\ IsResetWith(token_urlsafe(1))
  /\ ReachesLookup
  /\ SaysInvalidToken
  /\ \E i \in 1..Len(users) :
       users[i].password_hash = generate_password_hash(NewPassword)


\* the account a token or a URL id names, 0 where it names none
AccountOf(id) ==
  IF ObjectId(id).raised \/ ~FindById(ObjectId(id).val).found
    THEN 0
    ELSE FindById(ObjectId(id).val).at

IsAdminAccount(i) == i # 0 /\ users[i].role = "admin"

\* the caller of the call just answered, and the account its URL names
CallerAccount == AccountOf(exchange'.identity)
TargetAccount == AccountOf(exchange'.user_id)

\* a flag changes only in a successful call of an administrator that names
\* another account, and then it is that account's flag alone
FlagChangeJustified ==
  \A i \in 1..Len(users) :
    users'[i].is_active # users[i].is_active =>
      /\ exchange'.endpoint = "/toggle-status"
      /\ exchange'.status = 200
      /\ IsAdminAccount(CallerAccount)
      /\ TargetAccount = i
      /\ CallerAccount # i
      /\ \A j \in 1..Len(users) :
           j # i => users'[j].is_active = users[j].is_active

\* the answers: 403 to a caller who is no administrator, 400 to an
\* administrator naming their own account, and a flipped flag with 200
ToggleAnswered ==
  exchange'.endpoint = "/toggle-status" =>
    /\ (~IsAdminAccount(CallerAccount)) => exchange'.status = 403
    /\ (IsAdminAccount(CallerAccount) /\ TargetAccount = CallerAccount) =>
         exchange'.status = 400
    /\ (exchange'.status = 200) =>
         users'[TargetAccount].is_active = ~users[TargetAccount].is_active

\* C30: in every step of /users/<id>/toggle-status calls a user's is_active
\* flag changes only when the caller is an existing user with role 'admin'
\* and the target is another user, and then only the target's flag flips; a
\* caller who is no administrator gets 403 and an administrator naming their
\* own account gets 400
C30_OnlyOthersToggled == [][FlagChangeJustified /\ ToggleAnswered]_vars

\* the same holds of the calls whose URL id is spelt as the token's identity
\* is, in lower case, while the database is connected
C30_HoldsForIdsAsListed ==
  [][(/\ exchange'.endpoint = "/toggle-status"
      /\ exchange'.user_id = lower(exchange'.user_id)
      /\ exchange'.db = "up") =>
       (FlagChangeJustified /\ ToggleAnswered)]_vars
====
